---- MODULE Spec2Model ----
(***************************************************************************)
(* newspapers_crawler: the comment flatteners and the paginated searches   *)
(* of the Dantri, VnExpress and TuoiTre scripts, each a sequential batch   *)
(* job.  One behaviour of the model is one run of one script; `script'    *)
(* says which.  Payloads returned by the sites are inputs and are drawn    *)
(* from bounded sets at the step that performs the request.                *)
(***************************************************************************)
EXTENDS Integers, Sequences, FiniteSets, TLC

\* ------------------------------------------------------------------ bounds
NumArticles == 2      \* rows of the input article file
MaxComments == 2      \* top-level comments the site returns during one run
MaxReplies  == 2      \* items the reply endpoint holds for one comment
MaxResults  == 3      \* result nodes the search returns during one run
MaxPage     == 2      \* the Dantri search has fewer than MaxPage result pages
MaxEmptyPages == 2    \* largest --max-empty-pages argument of a run
MaxFields   == 2      \* columns of the file given to clean_old_csv.py
MaxRows     == 2      \* data lines of the file given to clean_old_csv.py
MaxCells    == 4      \* fields of a data line of the VnExpress article file

\* ------------------------------------------------- python values, encoded
None     == 0 - 1     \* Python None / JSON null
Missing  == 0 - 2     \* key absent from a JSON object
EmptyStr == 0 - 3     \* the string ''
Dict     == 0 - 4     \* a JSON object whose fields are modelled separately
True     == 1         \* Python True (the integer 1)
SomeParent == 7       \* a non-null parentId carried by a payload item

\* ------------------------------------------------------- program constants
NumQueries == 3       \* len(search_queries) in dantri/get_news.py
sb_LastPage == 4      \* range(1, 5) in vnexpress/search_bar.py
num_pages == 4        \* num_pages in vnexpress/article_available.py

\* --------------------------------------------------------------- input data
ArticleIds == {1, 2}          \* article ids the search results carry
Titles == {"a", "b"}          \* title texts the search results carry
Dates == 1..3                 \* the calendar days, oldest first
tn_ArticleIds == {1, 11, 21, 31}  \* TuoiTre ids: no date, day 1, day 2, day 3
\* --start-date / --end-date of a run: unparseable, reversed, or a range
tn_DateArgs == {<<None, 2>>, <<2, None>>, <<3, 2>>, <<2, 2>>, <<2, 3>>}

cc_Columns == {"user_name", "content"}   \* column names of a CSV file
cc_Values == {EmptyStr, 5}                \* field values of a CSV file

\* the URL of a result node: it ends in -<id>.html ("slug") or in
\* /<id>.html ("bare"), has no numeric segment ("plain"), or the node has
\* no URL at all ("absent")
Url(form, id) == [form |-> form, id |-> id]
NoUrl == Url("absent", 0)
PlainUrl == Url("plain", 0)
Urls == {NoUrl, PlainUrl} \cup {Url(form, id) : form \in {"slug", "bare"}, id \in ArticleIds}

Scripts == {"dantri_comments", "vnexpress_comments", "tto_comments", "dantri_news",
            "tto_news", "clean_old_csv", "vnexpress_search", "vnexpress_topic"}

\* python truthiness of the scalar values that occur in the model
Truthy(v) == v # None /\ v # Missing /\ v # EmptyStr /\ v # 0

\* dict.get(key, default): the default replaces an absent key only
Get(v, default) == IF v = Missing THEN default ELSE v

\* ids: top-level comment k of a payload has id k; the j-th item the reply
\* endpoint holds for comment c has id 100*c + j, so an id tells which
\* request produced the item and at which position.
ReplyId(c, j) == 100 * c + j
IsReplyId(id) == id >= 100
OwnerOf(id)   == id \div 100
PosOf(id)     == id % 100

RECURSIVE SumSeq(_)
SumSeq(s) == IF s = <<>> THEN 0 ELSE Head(s) + SumSeq(Tail(s))

RECURSIVE Flatten(_)
Flatten(ss) == IF ss = <<>> THEN <<>> ELSE Head(ss) \o Flatten(Tail(ss))

SeqsUpTo(S, n) == UNION {[1..k -> S] : k \in 0..n}

\* ===================================================================== state
\* ----------------------------------------------------- dantri/get_comments
VARIABLES
  script,            \* the script this run executes
  budget,            \* items (top-level comments, search results) the site may
                     \* still return in this run
  dc_pc,             \* position in dantri/get_comments.py main
  dc_input,          \* the input file: "missing", "no_column" or "ok"
  dc_index,          \* article row the loop of main is at (its article_id)
  dc_comments,       \* items of the article payload not yet iterated
  dc_result,         \* process_comments: result
  dc_all_comments,   \* main: all_comments
  dc_output,         \* rows written to the output file, <<>> if none is written
  dc_exit,           \* exit code of main, None while running
  dc_n,              \* history: length of the payload handed to process_comments
  dc_fetched,        \* history: items the reply endpoint returns, in this call, for
                     \* the comments whose declared reply count is positive
  dc_endpoint,       \* history: items held by the reply endpoint for the
                     \* comments iterated so far in this call
  dc_good,           \* history: items of the payload of this call whose
                     \* processing does not raise
  dc_declared,       \* history: ids of the comments of the payload of this
                     \* call whose declared reply count is greater than zero
  dc_reply_for,      \* history: comment ids of the reply requests of this call
  dc_reply_failed    \* history: comment ids of the reply requests of this call
                     \* that failed

dcVars == <<dc_pc, dc_input, dc_index, dc_comments, dc_result, dc_all_comments,
            dc_output, dc_exit, dc_n, dc_fetched, dc_endpoint, dc_good,
            dc_declared, dc_reply_for, dc_reply_failed>>

\* ------------------------------------------------ vnexpress/get_all_comments
VARIABLES
  vc_pc,             \* position in vnexpress/get_all_comments.py main
  vc_input,          \* the input file: "missing" or "ok"
  vc_articles,       \* article_id column of the rows read from the input file
  vc_i,              \* row the loop of main is at
  vc_comments,       \* fetch_article_comments: payload items not yet iterated
  vc_all_comments,   \* fetch_article_comments: all_comments
  vc_awc,            \* main: articles_with_comments, in insertion order
  vc_output,         \* rows written to the output file, <<>> if none is written
  vc_exit,           \* exit status of the process, None while running
  vc_n,              \* history: length of the payload fetch_article_comments iterates
  vc_fetched,        \* history: items returned by the reply fetches of this call
  vc_good,           \* history: items of the payload of this call whose
                     \* processing does not raise
  vc_declared,       \* history: ids of the comments of the payload of this
                     \* call whose declared reply count is greater than zero
  vc_reply_for,      \* history: comment ids of the reply requests of this call
  vc_reply_failed,   \* history: comment ids of the reply requests of this call
                     \* that failed
  vc_file,           \* the input file as update_article_csv_with_comment_count
                     \* reads it: header and data lines
  vc_updated         \* the input file as that function leaves it

vcVars == <<vc_pc, vc_input, vc_articles, vc_i, vc_comments, vc_all_comments,
            vc_awc, vc_output, vc_exit, vc_n, vc_fetched, vc_good,
            vc_declared, vc_reply_for, vc_reply_failed, vc_file, vc_updated>>

\* -------------------------------------------------------- tto/get_comments
VARIABLES
  tc_pc,             \* position in tto/get_comments.py main
  tc_input,          \* the input file: "missing", "no_column" or "ok"
  tc_index,          \* article row the loop of main is at (its article_id)
  tc_comments,       \* items of the article payload not yet iterated
  tc_result,         \* process_article_comments: result
  tc_all_comments,   \* main: all_comments
  tc_output,         \* rows written to the output file, <<>> if none is written
  tc_exit,           \* exit code of main, None while running
  tc_n,              \* history: length of the payload handed to process_article_comments
  tc_children,       \* history: child_comments items of the comments iterated in this call
  tc_good            \* history: comments and embedded replies of the payload of
                     \* this call whose processing does not raise

tcVars == <<tc_pc, tc_input, tc_index, tc_comments, tc_result, tc_all_comments,
            tc_output, tc_exit, tc_n, tc_children, tc_good>>

\* ----------------------------------------------------------- dantri/get_news
VARIABLES
  dn_pc,             \* position in dantri/get_news.py main
  dn_q,              \* index of the query the for loop is at
  dn_page,           \* main: page
  dn_reached_last_page,  \* main: reached_last_page
  dn_query_articles, \* main: query_articles
  dn_all_articles,   \* main: all_articles
  dn_unique,         \* main: unique_articles_list
  dn_output,         \* rows written to the output file, <<>> if none is written
  dn_exit,           \* exit code of main, None while running
  dn_log             \* history: the search requests made, with their responses

dnVars == <<dn_pc, dn_q, dn_page, dn_reached_last_page, dn_query_articles,
            dn_all_articles, dn_unique, dn_output, dn_exit, dn_log>>

\* -------------------------------------------------------------- tto/get_news
VARIABLES
  tn_pc,             \* position in tto/get_news.py main
  tn_start_date,     \* --start-date as parsed, None if it does not parse
  tn_end_date,       \* --end-date as parsed, None if it does not parse
  tn_max_empty_pages,    \* --max-empty-pages
  tn_page_index,     \* main: page_index
  tn_empty_pages_count,  \* main: empty_pages_count
  tn_reached_start_date, \* main: reached_start_date
  tn_all_articles,   \* main: all_articles
  tn_output,         \* rows written to the output file, <<>> if none is written
  tn_exit,           \* exit code of main, None while running
  tn_log             \* history: what search_tuoitre_articles returned, per call

tnVars == <<tn_pc, tn_start_date, tn_end_date, tn_max_empty_pages, tn_page_index,
            tn_empty_pages_count, tn_reached_start_date, tn_all_articles, tn_output,
            tn_exit, tn_log>>

\* ------------------------------------------------- vnexpress/clean_old_csv
VARIABLES
  cc_pc,             \* "first" / "second" run of clean_old_csv.py ahead, or "done"
  cc_input,          \* the file at input_file of the first run
  cc_columns,        \* --columns: columns_to_remove
  cc_out1,           \* the file at output_file after the first run
  cc_ret1,           \* what clean_csv returned in the first run
  cc_out2,           \* the file at output_file of the second run, whose
                     \* input_file is the output_file of the first
  cc_ret2,           \* what clean_csv returned in the second run
  cc_exit            \* exit code of the last run, None before the first

ccVars == <<cc_pc, cc_input, cc_columns, cc_out1, cc_ret1, cc_out2, cc_ret2, cc_exit>>

\* ---------------------------------------------------- vnexpress/search_bar
VARIABLES
  sb_pc,             \* position in vnexpress/search_bar.py main
  sb_page,           \* main: page
  sb_left,           \* parse_search_results: result nodes not yet iterated
  sb_all_articles,   \* main: all_articles
  sb_written,        \* the output file has been written
  sb_output,         \* rows of the output file
  sb_exit            \* exit status of the process, None while running

sbVars == <<sb_pc, sb_page, sb_left, sb_all_articles, sb_written, sb_output, sb_exit>>

\* --------------------------------------------- vnexpress/article_available
VARIABLES
  aa_pc,             \* position in scrape_vnexpress_topic / main
  aa_page_num,       \* scrape_vnexpress_topic: page_num
  aa_left,           \* scrape_vnexpress_topic: article nodes not yet iterated
  aa_all_articles,   \* scrape_vnexpress_topic: all_articles
  aa_output,         \* rows written to the output file, <<>> if none is written
  aa_exit            \* exit status of the process, None while running

aaVars == <<aa_pc, aa_page_num, aa_left, aa_all_articles, aa_output, aa_exit>>

\* ------------------------------------------------------------ HTTP traffic
VARIABLES
  net_last,          \* history: "none" until the first HTTP request of the run,
                     \* then what came last, a "request" or a "sleep"
  net_unslept        \* history: TRUE once a request was issued with no sleep
                     \* since the request before it

netVars == <<net_last, net_unslept>>

\* history: the requests and sleeps of one step, in the order the code
\* executes them
RECURSIVE NetAfter(_, _)
NetAfter(net, events) ==
  IF events = <<>> THEN net
  ELSE NetAfter(IF Head(events) = "request"
                  THEN [last |-> "request",
                        unslept |-> net.unslept \/ net.last = "request"]
                  ELSE [last |-> IF net.last = "none" THEN "none" ELSE "sleep",
                        unslept |-> net.unslept],
                Tail(events))
Net(events) ==
  LET net == NetAfter([last |-> net_last, unslept |-> net_unslept], events)
  IN net_last' = net.last /\ net_unslept' = net.unslept

\* the variables of the scripts other than the one an action belongs to
dc_Others == <<vcVars, tcVars, dnVars, tnVars, ccVars, sbVars, aaVars>>
vc_Others == <<dcVars, tcVars, dnVars, tnVars, ccVars, sbVars, aaVars>>
tc_Others == <<dcVars, vcVars, dnVars, tnVars, ccVars, sbVars, aaVars>>
dn_Others == <<dcVars, vcVars, tcVars, tnVars, ccVars, sbVars, aaVars>>
tn_Others == <<dcVars, vcVars, tcVars, dnVars, ccVars, sbVars, aaVars>>
cc_Others == <<dcVars, vcVars, tcVars, dnVars, tnVars, sbVars, aaVars, netVars, budget>>
sb_Others == <<dcVars, vcVars, tcVars, dnVars, tnVars, ccVars, aaVars>>
aa_Others == <<dcVars, vcVars, tcVars, dnVars, tnVars, ccVars, sbVars>>

\* ======================================================== dantri/get_comments


\* a top-level item of the listcomment payload
dc_ParentIds   == {None, SomeParent}
dc_ReplyCounts == {Missing, None, 0, 1}
dc_Items(k) == [commentId : {k}, parentId : dc_ParentIds, replyCount : dc_ReplyCounts]
dc_Payloads(max) == UNION {{p \in [1..n -> UNION {dc_Items(k) : k \in 1..n}] :
                               \A k \in 1..n : p[k].commentId = k} : n \in 0..max}

\* what the reply endpoint holds for comment c: r items, in its order
dc_EndpointItems(c, r) == [j \in 1..r |-> [commentId |-> ReplyId(c, j)]]

\* get_article_comments / get_comment_replies: the items on success, [] on
\* any exception (network failure, non-2xx status, malformed JSON)
get_article_comments(ok, items) == IF ok THEN items ELSE <<>>
get_comment_replies(ok, items) == IF ok THEN items ELSE <<>>

\* row appended for a top-level comment
dc_CommentRow(article_id, comment) ==
  [article_id |-> article_id,
   comment_id |-> comment.commentId,
   parent_id  |-> IF Truthy(comment.parentId) THEN comment.parentId ELSE EmptyStr,
   is_reply   |-> IF comment.parentId = None THEN FALSE ELSE TRUE]

\* mutant: the reply row keeps the reply's own id as parent
dc_ReplyRow_OwnId(article_id, comment_id, reply) ==
  [article_id |-> article_id,
   comment_id |-> reply.commentId,
   parent_id  |-> reply.commentId,
   is_reply   |-> TRUE]

\* row appended for an item of the reply list of comment_id
dc_ReplyRow(article_id, comment_id, reply) ==
  [article_id |-> article_id,
   comment_id |-> reply.commentId,
   parent_id  |-> comment_id,
   is_reply   |-> TRUE]

\* mutant: the replies are appended in reverse order
dc_ReplyRows_Reversed(article_id, comment_id, replies) ==
  [j \in 1..Len(replies) |->
     dc_ReplyRow(article_id, comment_id, replies[Len(replies) + 1 - j])]

dc_ReplyRows(article_id, comment_id, replies) ==
  [j \in 1..Len(replies) |-> dc_ReplyRow(article_id, comment_id, replies[j])]

\* reply_count = comment.get('replyCount', 0)
dc_reply_count(comment) == Get(comment.replyCount, 0)

\* `reply_count > 0' raises TypeError when reply_count is None
dc_Raises(comment) == dc_reply_count(comment) = None
dc_HasReplies(comment) == dc_reply_count(comment) > 0

\* history: what a reply request for this comment returns when its declared
\* reply count is a positive number (r items, none when the request fails)
dc_Due(comment, ok, r) ==
  IF comment.replyCount \notin {Missing, None} /\ comment.replyCount > 0 /\ ok
    THEN r ELSE 0

\* history: the ids of the items of a payload that declare a reply count
\* greater than zero, in payload order
dc_Declared(comments) ==
  LET declared == SelectSeq(comments, LAMBDA comment :
                    comment.replyCount \notin {Missing, None} /\ comment.replyCount > 0)
  IN [k \in 1..Len(declared) |-> declared[k].commentId]

\* history: the items of a payload that process_comments handles without
\* raising
dc_WellFormed(comments) ==
  Cardinality({k \in 1..Len(comments) : ~dc_Raises(comments[k])})

dc_Init ==
  /\ dc_pc = "read"
  /\ dc_input \in {"missing", "no_column", "ok"}
  /\ dc_index = 1
  /\ dc_comments = <<>>
  /\ dc_result = <<>>
  /\ dc_all_comments = <<>>
  /\ dc_output = <<>>
  /\ dc_exit = None
  /\ dc_n = 0
  /\ dc_fetched = 0
  /\ dc_endpoint = 0
  /\ dc_good = 0
  /\ dc_declared = <<>>
  /\ dc_reply_for = <<>>
  /\ dc_reply_failed = <<>>

dc_Idle ==
  /\ dc_pc = "idle"
  /\ dc_input = "ok"
  /\ dc_index = 1
  /\ dc_comments = <<>>
  /\ dc_result = <<>>
  /\ dc_all_comments = <<>>
  /\ dc_output = <<>>
  /\ dc_exit = None
  /\ dc_n = 0
  /\ dc_fetched = 0
  /\ dc_endpoint = 0
  /\ dc_good = 0
  /\ dc_declared = <<>>
  /\ dc_reply_for = <<>>
  /\ dc_reply_failed = <<>>

\* main: pd.read_csv and the article_id column test
dc_ReadInput ==
  /\ script = "dantri_comments" /\ dc_pc = "read"
  /\ IF dc_input = "ok"
       THEN dc_pc' = "article" /\ dc_exit' = dc_exit
       ELSE dc_pc' = "done" /\ dc_exit' = 1
  /\ UNCHANGED <<dc_Others, script, net_last, net_unslept, budget, dc_input, dc_index, dc_comments, dc_result,
                 dc_all_comments, dc_output, dc_n, dc_good, dc_fetched, dc_endpoint,
                 dc_declared, dc_reply_for, dc_reply_failed>>

\* main: one article of the loop up to the call of process_comments; an
\* article without comments is finished here (message, sleep, next row)
dc_FetchArticle ==
  /\ script = "dantri_comments" /\ dc_pc = "article" /\ dc_index <= NumArticles
  /\ \E ok \in BOOLEAN, items \in dc_Payloads(budget) :
       LET comments == get_article_comments(ok, items) IN
       /\ budget' = budget - Len(comments)
       /\ Net(IF comments # <<>> THEN <<"request">> ELSE <<"request", "sleep">>)
       /\ IF comments # <<>>
            THEN /\ dc_pc' = "process"
                 /\ dc_comments' = comments
                 /\ dc_n' = Len(comments)
                 /\ dc_good' = dc_WellFormed(comments)
                 /\ dc_declared' = dc_Declared(comments)
                 /\ dc_index' = dc_index
            ELSE /\ dc_pc' = "article"
                 /\ dc_comments' = <<>>
                 /\ dc_n' = 0
                 /\ dc_good' = 0
                 /\ dc_declared' = <<>>
                 /\ dc_index' = dc_index + 1
  /\ dc_result' = <<>>
  /\ dc_fetched' = 0
  /\ dc_endpoint' = 0
  /\ dc_reply_for' = <<>>
  /\ dc_reply_failed' = <<>>
  /\ UNCHANGED <<dc_Others, script, dc_input, dc_all_comments, dc_output, dc_exit>>

\* mutant: a failed reply request is not caught and ends process_comments
dc_ProcessComment_FetchRaises ==
  /\ script = "dantri_comments" /\ dc_pc = "process" /\ dc_comments # <<>>
  /\ LET comment == Head(dc_comments)
         comment_id == comment.commentId
         row == dc_CommentRow(dc_index, comment)
         requested == ~dc_Raises(comment) /\ dc_HasReplies(comment)
     IN \E r \in 0..MaxReplies, ok \in BOOLEAN :
          /\ dc_endpoint' = dc_endpoint + r
          /\ Net(IF requested THEN <<"request">> ELSE <<>>)
          /\ dc_reply_for' = IF requested THEN Append(dc_reply_for, comment_id)
                                           ELSE dc_reply_for
          /\ dc_reply_failed' = IF requested /\ ~ok
                                  THEN Append(dc_reply_failed, comment_id)
                                  ELSE dc_reply_failed
          /\ dc_fetched' = dc_fetched + dc_Due(comment, ok, r)
          /\ IF dc_Raises(comment) \/ (requested /\ ~ok)
               THEN /\ dc_pc' = "done"
                    /\ dc_exit' = 1
                    /\ dc_result' = Append(dc_result, row)
               ELSE /\ dc_pc' = "process"
                    /\ dc_exit' = dc_exit
                    /\ IF dc_HasReplies(comment)
                         THEN LET replies == get_comment_replies(ok, dc_EndpointItems(comment_id, r))
                              IN dc_result' = Append(dc_result, row)
                                                \o dc_ReplyRows(dc_index, comment_id, replies)
                         ELSE dc_result' = Append(dc_result, row)
  /\ dc_comments' = Tail(dc_comments)
  /\ UNCHANGED <<dc_Others, script, budget, dc_input, dc_index, dc_all_comments, dc_output, dc_n, dc_good,
                 dc_declared>>

\* process_comments: one iteration of `for comment in comments', with the
\* reply fetch and the reply loop it contains.  An exception leaves
\* process_comments and is caught by main, which returns 1.
dc_ProcessComment ==
  /\ script = "dantri_comments" /\ dc_pc = "process" /\ dc_comments # <<>>
  /\ LET comment == Head(dc_comments)
         comment_id == comment.commentId
         row == dc_CommentRow(dc_index, comment)
     IN \E r \in 0..MaxReplies, ok \in BOOLEAN :
          /\ dc_endpoint' = dc_endpoint + r
          /\ Net(IF ~dc_Raises(comment) /\ dc_HasReplies(comment)
                   THEN <<"request">> ELSE <<>>)
          /\ dc_reply_for' = IF ~dc_Raises(comment) /\ dc_HasReplies(comment)
                               THEN Append(dc_reply_for, comment_id)
                               ELSE dc_reply_for
          /\ dc_reply_failed' = IF ~dc_Raises(comment) /\ dc_HasReplies(comment) /\ ~ok
                                  THEN Append(dc_reply_failed, comment_id)
                                  ELSE dc_reply_failed
          /\ dc_fetched' = dc_fetched + dc_Due(comment, ok, r)
          /\ IF dc_Raises(comment)
               THEN /\ dc_pc' = "done"
                    /\ dc_exit' = 1
                    /\ dc_result' = Append(dc_result, row)
               ELSE /\ dc_pc' = "process"
                    /\ dc_exit' = dc_exit
                    /\ IF dc_HasReplies(comment)
                         THEN LET replies == get_comment_replies(ok, dc_EndpointItems(comment_id, r))
                              IN dc_result' = Append(dc_result, row)
                                                \o dc_ReplyRows(dc_index, comment_id, replies)
                         ELSE dc_result' = Append(dc_result, row)
  /\ dc_comments' = Tail(dc_comments)
  /\ UNCHANGED <<dc_Others, script, budget, dc_input, dc_index, dc_all_comments, dc_output, dc_n, dc_good,
                 dc_declared>>

\* process_comments returns; main extends all_comments, sleeps, next row
dc_ProcessReturn ==
  /\ script = "dantri_comments" /\ dc_pc = "process" /\ dc_comments = <<>>
  /\ dc_all_comments' = dc_all_comments \o dc_result
  /\ dc_index' = dc_index + 1
  /\ dc_pc' = "article"
  /\ Net(<<"sleep">>)
  /\ UNCHANGED <<dc_Others, script, budget, dc_input, dc_comments, dc_result, dc_output, dc_exit,
                 dc_n, dc_good, dc_fetched, dc_endpoint,
                 dc_declared, dc_reply_for, dc_reply_failed>>

\* mutant: the run fails when there is no row to write
dc_Save_FailsEmpty ==
  /\ script = "dantri_comments" /\ dc_pc = "article" /\ dc_index > NumArticles
  /\ dc_output' = IF dc_all_comments # <<>> THEN dc_all_comments ELSE dc_output
  /\ dc_exit' = IF dc_all_comments # <<>> THEN 0 ELSE 1
  /\ dc_pc' = "done"
  /\ UNCHANGED <<dc_Others, script, net_last, net_unslept, budget, dc_input, dc_index, dc_comments, dc_result,
                 dc_all_comments, dc_n, dc_good, dc_fetched, dc_endpoint,
                 dc_declared, dc_reply_for, dc_reply_failed>>

\* main: after the loop, write the rows if there are any, return 0
dc_Save ==
  /\ script = "dantri_comments" /\ dc_pc = "article" /\ dc_index > NumArticles
  /\ dc_output' = IF dc_all_comments # <<>> THEN dc_all_comments ELSE dc_output
  /\ dc_exit' = 0
  /\ dc_pc' = "done"
  /\ UNCHANGED <<dc_Others, script, net_last, net_unslept, budget, dc_input, dc_index, dc_comments, dc_result,
                 dc_all_comments, dc_n, dc_good, dc_fetched, dc_endpoint,
                 dc_declared, dc_reply_for, dc_reply_failed>>

\* ================================================== vnexpress/get_all_comments

\* a top-level item of the comment payload.  `replys' is absent, null or an
\* object; `total' is the field of that object.
vc_Items(k) ==
  {it \in [comment_id : {k, Missing}, parent_id : {Missing}, is_reply : {Missing, True},
           replys : {Missing, None, Dict}, total : {Missing, None, 0, 1}] :
     it.replys # Dict => it.total = Missing}
vc_Payloads(max) == UNION {{p \in [1..n -> UNION {vc_Items(k) : k \in 1..n}] :
                               \A k \in 1..n : p[k] \in vc_Items(k)} : n \in 0..max}

\* what the reply endpoint returns for comment c: items in its order, each
\* with or without a parent_id field
vc_ReplyPayloads(c) ==
  UNION {[1..r -> {Missing, c}] : r \in 0..MaxReplies}
vc_ReplyItems(c, parents) ==
  [j \in 1..Len(parents) |->
     [comment_id |-> ReplyId(c, j), parent_id |-> parents[j], is_reply |-> Missing]]

\* fetch_comment_replies: data['data']['items'] on success, [] otherwise
fetch_comment_replies(ok, items) == IF ok THEN items ELSE <<>>

\* the reply loop: reply['is_reply'] = True, then append
vc_MarkReply(reply) == [reply EXCEPT !.is_reply = True]
vc_MarkReplies(replies) == [j \in 1..Len(replies) |-> vc_MarkReply(replies[j])]

\* the keys of a payload item that the rest of the run reads
vc_Stored(comment) ==
  [comment_id |-> comment.comment_id, parent_id |-> comment.parent_id,
   is_reply |-> comment.is_reply]

\* the `replys' test of fetch_article_comments: evaluating it raises on a
\* null `replys' object or a null `total'
vc_Raises(comment) ==
  \/ comment.replys = None
  \/ comment.replys = Dict /\ comment.total = None
vc_HasReplies(comment) ==
  comment.replys # Missing /\ comment.total # Missing /\ comment.total > 0

\* articles_with_comments[article_id] = comments on an insertion-ordered dict
DictSet(d, key, value) ==
  IF \E n \in 1..Len(d) : d[n].key = key
    THEN [n \in 1..Len(d) |-> IF d[n].key = key THEN [key |-> key, value |-> value] ELSE d[n]]
    ELSE Append(d, [key |-> key, value |-> value])

\* save_comments_to_csv: the row built from one stored comment
vc_Row(article_id, comment) ==
  LET comment_id == Get(comment.comment_id, EmptyStr)
      parent_id  == Get(comment.parent_id, comment_id)
      is_reply   == Get(comment.is_reply, 0)
  IN [article_id |-> article_id, comment_id |-> comment_id, parent_id |-> parent_id,
      is_reply |-> IF Truthy(is_reply) THEN "Yes" ELSE "No"]

\* save_comments_to_csv: comments_data over all articles, in dict order
vc_CommentsData(awc) ==
  Flatten([n \in 1..Len(awc) |->
             [m \in 1..Len(awc[n].value) |-> vc_Row(awc[n].key, awc[n].value[m])]])

\* history: the ids of the items of a payload that declare a reply count
\* greater than zero, in payload order
vc_Declared(comments) ==
  LET declared == SelectSeq(comments, LAMBDA comment :
                    comment.replys = Dict /\ comment.total \notin {Missing, None}
                      /\ comment.total > 0)
  IN [k \in 1..Len(declared) |-> declared[k].comment_id]

\* history: the items of a payload whose iteration in
\* fetch_article_comments does not raise
vc_WellFormed(comments) ==
  Cardinality({k \in 1..Len(comments) : ~vc_Raises(comments[k])})

vc_InputRows == SeqsUpTo({EmptyStr, 1, 2}, NumArticles)

\* the article file: a header that starts with article_id, with or without
\* a comment_count column, and one data line for each row read, which
\* starts with the article_id of the row and has 1..MaxCells fields (blank
\* lines are skipped by csv.DictReader and are not rows)
vc_Headers == {<<"article_id", "headline">>, <<"article_id", "headline", "comment_count">>}
vc_Cell == 5
vc_Line(article_id, cells) == <<article_id>> \o [k \in 1..(cells - 1) |-> vc_Cell]
vc_ArticleFiles(articles) ==
  {[header |-> h, rows |-> [i \in 1..Len(articles) |-> vc_Line(articles[i], n[i])]] :
     h \in vc_Headers, n \in [1..Len(articles) -> 1..MaxCells]}
vc_NotRead == [header |-> <<>>, rows |-> <<>>]

\* fieldnames = reader.fieldnames; fieldnames.append('comment_count') if it
\* is not there: the list is the reader's own, so the reader also uses the
\* appended name for the lines it reads afterwards
vc_fieldnames(header) ==
  IF \E k \in 1..Len(header) : header[k] = "comment_count"
    THEN header ELSE Append(header, "comment_count")

\* len(articles_with_comments[article_id]) if the id is a key, else 0
vc_comment_count(awc, article_id) ==
  IF \E n \in 1..Len(awc) : awc[n].key = article_id
    THEN Len(awc[CHOOSE n \in 1..Len(awc) : awc[n].key = article_id].value)
    ELSE 0

\* csv.DictReader puts the fields beyond the last field name under the key
\* None, and csv.DictWriter raises ValueError for a row with such a key
vc_Fits(fieldnames, line) == Len(line) <= Len(fieldnames)

\* the line DictWriter writes for a row that fits: the fields in the order
\* of fieldnames, '' for a field the line does not have
vc_UpdatedLine(fieldnames, line, awc) ==
  [k \in 1..Len(fieldnames) |->
     IF fieldnames[k] = "comment_count" THEN vc_comment_count(awc, line[1])
     ELSE IF k <= Len(line) THEN line[k] ELSE EmptyStr]

\* update_article_csv_with_comment_count with output_file = input_file: the
\* file is opened for writing after all rows are read; writerows writes the
\* header and the rows up to the first one that does not fit, where it
\* raises
update_article_csv_with_comment_count(file, awc) ==
  LET fieldnames == vc_fieldnames(file.header)
      bad == {i \in 1..Len(file.rows) : ~vc_Fits(fieldnames, file.rows[i])}
      written == IF bad = {} THEN Len(file.rows)
                 ELSE (CHOOSE i \in bad : \A j \in bad : i <= j) - 1
  IN [raised |-> bad # {},
      file |-> [header |-> fieldnames,
                rows |-> [i \in 1..written |->
                            vc_UpdatedLine(fieldnames, file.rows[i], awc)]]]

vc_Init ==
  /\ vc_pc = "start"
  /\ vc_input \in {"missing", "ok"}
  /\ vc_articles \in vc_InputRows
  /\ vc_input = "missing" => vc_articles = <<>>
  /\ vc_i = 1
  /\ vc_comments = <<>>
  /\ vc_all_comments = <<>>
  /\ vc_awc = <<>>
  /\ vc_output = <<>>
  /\ vc_exit = None
  /\ vc_n = 0
  /\ vc_fetched = 0
  /\ vc_good = 0
  /\ vc_declared = <<>>
  /\ vc_reply_for = <<>>
  /\ vc_reply_failed = <<>>
  /\ vc_file = vc_NotRead
  /\ vc_updated = vc_NotRead

vc_Idle ==
  /\ vc_pc = "idle"
  /\ vc_input = "ok"
  /\ vc_articles = <<>>
  /\ vc_i = 1
  /\ vc_comments = <<>>
  /\ vc_all_comments = <<>>
  /\ vc_awc = <<>>
  /\ vc_output = <<>>
  /\ vc_exit = None
  /\ vc_n = 0
  /\ vc_fetched = 0
  /\ vc_good = 0
  /\ vc_declared = <<>>
  /\ vc_reply_for = <<>>
  /\ vc_reply_failed = <<>>
  /\ vc_file = vc_NotRead
  /\ vc_updated = vc_NotRead

\* main: the input file test and read_articles_from_csv; main returns
\* without a value on both early exits, so the exit status is 0
vc_ReadInput ==
  /\ script = "vnexpress_comments" /\ vc_pc = "start"
  /\ IF vc_input = "ok" /\ vc_articles # <<>>
       THEN vc_pc' = "article" /\ vc_exit' = vc_exit
       ELSE vc_pc' = "done" /\ vc_exit' = 0
  /\ UNCHANGED <<vc_Others, script, net_last, net_unslept, budget, vc_input, vc_articles, vc_i, vc_comments,
                 vc_all_comments, vc_awc, vc_output, vc_n, vc_good, vc_fetched,
                 vc_declared, vc_reply_for, vc_reply_failed, vc_file, vc_updated>>

\* main: a row without article_id is skipped
vc_SkipArticle ==
  /\ script = "vnexpress_comments" /\ vc_pc = "article" /\ vc_i <= Len(vc_articles)
  /\ ~Truthy(vc_articles[vc_i])
  /\ vc_i' = vc_i + 1
  /\ UNCHANGED <<vc_Others, script, net_last, net_unslept, budget, vc_pc, vc_input, vc_articles, vc_comments,
                 vc_all_comments, vc_awc, vc_output, vc_exit, vc_n, vc_good, vc_fetched,
                 vc_declared, vc_reply_for, vc_reply_failed, vc_file, vc_updated>>

\* main: time.sleep(args.delay) unless the row is the last one of the file
vc_Delay == IF vc_i < Len(vc_articles) THEN <<"sleep">> ELSE <<>>

\* fetch_article_comments up to its loop: the request for the comment
\* payload; any exception makes the function return [] at once
vc_FetchArticle ==
  /\ script = "vnexpress_comments" /\ vc_pc = "article" /\ vc_i <= Len(vc_articles)
  /\ Truthy(vc_articles[vc_i])
  /\ \E ok \in BOOLEAN, items \in vc_Payloads(budget) :
       IF ok
         THEN /\ vc_pc' = "comment"
              /\ vc_comments' = items
              /\ vc_n' = Len(items)
              /\ vc_good' = vc_WellFormed(items)
              /\ vc_declared' = vc_Declared(items)
              /\ budget' = budget - Len(items)
              /\ Net(<<"request">>)
              /\ UNCHANGED <<vc_i, vc_awc>>
         ELSE /\ vc_pc' = "article"
              /\ vc_comments' = <<>>
              /\ vc_n' = 0
              /\ vc_good' = 0
              /\ vc_declared' = <<>>
              /\ budget' = budget
              /\ Net(<<"request">> \o vc_Delay)
              /\ vc_awc' = DictSet(vc_awc, vc_articles[vc_i], <<>>)
              /\ vc_i' = vc_i + 1
  /\ vc_all_comments' = <<>>
  /\ vc_fetched' = 0
  /\ vc_reply_for' = <<>>
  /\ vc_reply_failed' = <<>>
  /\ UNCHANGED <<vc_Others, script, vc_input, vc_articles, vc_output, vc_exit, vc_file, vc_updated>>

\* fetch_article_comments: one iteration of `for comment in comments', with
\* the reply fetch and the reply loop it contains.  An exception ends the
\* function with [] for the whole article.
vc_ProcessComment ==
  /\ script = "vnexpress_comments" /\ vc_pc = "comment" /\ vc_comments # <<>>
  /\ LET comment == Head(vc_comments)
         parent_id == Get(comment.comment_id, None)
     IN IF vc_Raises(comment)
          THEN /\ vc_pc' = "article"
               /\ vc_comments' = <<>>
               /\ vc_all_comments' = <<>>
               /\ vc_awc' = DictSet(vc_awc, vc_articles[vc_i], <<>>)
               /\ vc_i' = vc_i + 1
               /\ vc_fetched' = vc_fetched
               /\ vc_reply_for' = vc_reply_for
               /\ vc_reply_failed' = vc_reply_failed
               /\ Net(vc_Delay)
          ELSE /\ vc_pc' = "comment"
               /\ vc_comments' = Tail(vc_comments)
               /\ UNCHANGED <<vc_awc, vc_i>>
               /\ IF vc_HasReplies(comment) /\ Truthy(parent_id)
                    THEN \E ok \in BOOLEAN, parents \in vc_ReplyPayloads(parent_id) :
                           LET replies == fetch_comment_replies(ok, vc_ReplyItems(parent_id, parents))
                           IN /\ vc_all_comments' = Append(vc_all_comments, vc_Stored(comment))
                                                     \o vc_MarkReplies(replies)
                              /\ vc_fetched' = vc_fetched + Len(replies)
                              /\ vc_reply_for' = Append(vc_reply_for, parent_id)
                              /\ vc_reply_failed' = IF ok THEN vc_reply_failed
                                                     ELSE Append(vc_reply_failed, parent_id)
                              /\ Net(<<"request", "sleep">>)
                    ELSE /\ vc_all_comments' = Append(vc_all_comments, vc_Stored(comment))
                         /\ vc_fetched' = vc_fetched
                         /\ vc_reply_for' = vc_reply_for
                         /\ vc_reply_failed' = vc_reply_failed
                         /\ Net(<<>>)
  /\ UNCHANGED <<vc_Others, script, budget, vc_input, vc_articles, vc_output, vc_exit, vc_n, vc_good,
                 vc_declared, vc_file, vc_updated>>

\* fetch_article_comments returns all_comments; main stores it
vc_Return ==
  /\ script = "vnexpress_comments" /\ vc_pc = "comment" /\ vc_comments = <<>>
  /\ vc_awc' = DictSet(vc_awc, vc_articles[vc_i], vc_all_comments)
  /\ vc_i' = vc_i + 1
  /\ vc_pc' = "article"
  /\ Net(vc_Delay)
  /\ UNCHANGED <<vc_Others, script, budget, vc_input, vc_articles, vc_comments,
                 vc_all_comments, vc_output, vc_exit, vc_n, vc_good, vc_fetched,
                 vc_declared, vc_reply_for, vc_reply_failed, vc_file, vc_updated>>

\* main after the loop: save_comments_to_csv writes no file without rows;
\* without --update-articles main ends here
vc_Save ==
  /\ script = "vnexpress_comments" /\ vc_pc = "article" /\ vc_i > Len(vc_articles)
  /\ LET comments_data == vc_CommentsData(vc_awc)
     IN vc_output' = IF comments_data = <<>> THEN vc_output ELSE comments_data
  /\ \E update_articles \in BOOLEAN :
       IF update_articles
         THEN vc_pc' = "update" /\ vc_exit' = vc_exit
         ELSE vc_pc' = "done" /\ vc_exit' = 0
  /\ UNCHANGED <<vc_Others, script, net_last, net_unslept, budget, vc_input, vc_articles, vc_i, vc_comments,
                 vc_all_comments, vc_awc, vc_n, vc_good, vc_fetched,
                 vc_declared, vc_reply_for, vc_reply_failed, vc_file, vc_updated>>

\* main with --update-articles: update_article_csv_with_comment_count on
\* the input file; an exception it raises is not caught and ends the
\* process with a traceback and exit status 1
vc_Update ==
  /\ script = "vnexpress_comments" /\ vc_pc = "update"
  /\ \E file \in vc_ArticleFiles(vc_articles) :
       LET res == update_article_csv_with_comment_count(file, vc_awc)
       IN /\ vc_file' = file
          /\ vc_updated' = res.file
          /\ vc_exit' = IF res.raised THEN 1 ELSE 0
  /\ vc_pc' = "done"
  /\ UNCHANGED <<vc_Others, script, net_last, net_unslept, budget, vc_input, vc_articles, vc_i, vc_comments,
                 vc_all_comments, vc_awc, vc_output, vc_n, vc_good, vc_fetched,
                 vc_declared, vc_reply_for, vc_reply_failed>>

\* ============================================================ tto/get_comments
\* a `reactions' field: absent, null, or an object with these values
tc_NoReactions   == [kind |-> Missing, values |-> <<>>]
tc_NullReactions == [kind |-> None, values |-> <<>>]
tc_Reactions(vs) == [kind |-> Dict, values |-> vs]

\* a reply embedded in child_comments; its content tells owner and position
tc_Child(k, j, reactions) == [content |-> ReplyId(k, j), reactions |-> reactions]
tc_ChildReactions == {tc_NoReactions, tc_Reactions(<<1>>), tc_Reactions(<<None>>)}
tc_ChildLists(k) ==
  UNION {{[j \in 1..r |-> tc_Child(k, j, f[j])] : f \in [1..r -> tc_ChildReactions]} :
           r \in 0..MaxReplies}

\* a top-level item: child_comments is absent, null or a list
tc_TopReactions == {tc_NoReactions, tc_NullReactions, tc_Reactions(<<1, 2>>),
                    tc_Reactions(<<None>>)}
tc_Items(k) ==
  {[content |-> k, reactions |-> re, child_kind |-> ck, child_comments |-> ch] :
     re \in tc_TopReactions, ck \in {Missing, None}, ch \in {<<>>}}
  \cup
  {[content |-> k, reactions |-> re, child_kind |-> Dict, child_comments |-> ch] :
     re \in tc_TopReactions, ch \in tc_ChildLists(k)}
tc_Payloads(max) == UNION {{p \in [1..n -> UNION {tc_Items(k) : k \in 1..n}] :
                               \A k \in 1..n : p[k].content = k} : n \in 0..max}

\* get_article_comments: the decoded `Data' list, [] on any exception
tc_get_article_comments(ok, items) == IF ok THEN items ELSE <<>>

\* calculate_total_reactions: 0 for a missing, null or empty object, else
\* sum(values), which raises TypeError on a null value
tc_Falsy(reactions) == reactions.kind # Dict \/ reactions.values = <<>>
tc_SumRaises(reactions) ==
  ~tc_Falsy(reactions) /\ \E n \in 1..Len(reactions.values) : reactions.values[n] = None
calculate_total_reactions(reactions) ==
  IF tc_Falsy(reactions) THEN 0 ELSE SumSeq(reactions.values)

tc_Row(article_id, item) ==
  [article_id |-> article_id, content |-> item.content,
   reacts |-> calculate_total_reactions(item.reactions)]

\* the children iterated by `for child in child_comments'
tc_Children(comment) == IF comment.child_kind = Dict THEN comment.child_comments ELSE <<>>

\* index of the first child whose reactions make sum() raise, 0 if none
tc_FirstBadChild(children) ==
  IF \E j \in 1..Len(children) : tc_SumRaises(children[j].reactions)
    THEN CHOOSE j \in 1..Len(children) :
           /\ tc_SumRaises(children[j].reactions)
           /\ \A m \in 1..(j - 1) : ~tc_SumRaises(children[m].reactions)
    ELSE 0

tc_ChildRows(article_id, children, n) ==
  [j \in 1..n |-> tc_Row(article_id, children[j])]

\* history: the comments of a payload whose reactions can be summed, each
\* with those of its embedded replies whose reactions can be summed
tc_WellFormed(comments) ==
  SumSeq([k \in 1..Len(comments) |->
            IF tc_SumRaises(comments[k].reactions) THEN 0
            ELSE 1 + Cardinality({j \in 1..Len(tc_Children(comments[k])) :
                                    ~tc_SumRaises(tc_Children(comments[k])[j].reactions)})])

tc_Init ==
  /\ tc_pc = "read"
  /\ tc_input \in {"missing", "no_column", "ok"}
  /\ tc_index = 1
  /\ tc_comments = <<>>
  /\ tc_result = <<>>
  /\ tc_all_comments = <<>>
  /\ tc_output = <<>>
  /\ tc_exit = None
  /\ tc_n = 0
  /\ tc_children = 0
  /\ tc_good = 0

tc_Idle ==
  /\ tc_pc = "idle"
  /\ tc_input = "ok"
  /\ tc_index = 1
  /\ tc_comments = <<>>
  /\ tc_result = <<>>
  /\ tc_all_comments = <<>>
  /\ tc_output = <<>>
  /\ tc_exit = None
  /\ tc_n = 0
  /\ tc_children = 0
  /\ tc_good = 0

\* main: pd.read_csv and the article_id column test
tc_ReadInput ==
  /\ script = "tto_comments" /\ tc_pc = "read"
  /\ IF tc_input = "ok"
       THEN tc_pc' = "article" /\ tc_exit' = tc_exit
       ELSE tc_pc' = "done" /\ tc_exit' = 1
  /\ UNCHANGED <<tc_Others, script, net_last, net_unslept, budget, tc_input, tc_index, tc_comments, tc_result,
                 tc_all_comments, tc_output, tc_n, tc_good, tc_children>>

\* main: one article of the loop up to the call of process_article_comments;
\* an article without comments is finished here (message, sleep, next row)
tc_FetchArticle ==
  /\ script = "tto_comments" /\ tc_pc = "article" /\ tc_index <= NumArticles
  /\ \E ok \in BOOLEAN, items \in tc_Payloads(budget) :
       LET comments == tc_get_article_comments(ok, items) IN
       /\ budget' = budget - Len(comments)
       /\ Net(IF comments # <<>> THEN <<"request">> ELSE <<"request", "sleep">>)
       /\ IF comments # <<>>
            THEN /\ tc_pc' = "process"
                 /\ tc_comments' = comments
                 /\ tc_n' = Len(comments)
                 /\ tc_good' = tc_WellFormed(comments)
                 /\ tc_index' = tc_index
            ELSE /\ tc_pc' = "article"
                 /\ tc_comments' = <<>>
                 /\ tc_n' = 0
                 /\ tc_good' = 0
                 /\ tc_index' = tc_index + 1
  /\ tc_result' = <<>>
  /\ tc_children' = 0
  /\ UNCHANGED <<tc_Others, script, tc_input, tc_all_comments, tc_output, tc_exit>>

\* process_article_comments: one iteration of `for comment in comments' with
\* the loop over its child_comments.  An exception leaves the function and
\* is caught by main, which returns 1.
tc_ProcessComment ==
  /\ script = "tto_comments" /\ tc_pc = "process" /\ tc_comments # <<>>
  /\ LET comment == Head(tc_comments)
         children == tc_Children(comment)
         bad == tc_FirstBadChild(children)
     IN IF tc_SumRaises(comment.reactions)
          THEN /\ tc_pc' = "done" /\ tc_exit' = 1
               /\ tc_result' = tc_result
          ELSE IF bad # 0
          THEN /\ tc_pc' = "done" /\ tc_exit' = 1
               /\ tc_result' = Append(tc_result, tc_Row(tc_index, comment))
                                 \o tc_ChildRows(tc_index, children, bad - 1)
          ELSE /\ tc_pc' = "process" /\ tc_exit' = tc_exit
               /\ tc_result' = Append(tc_result, tc_Row(tc_index, comment))
                                 \o tc_ChildRows(tc_index, children, Len(children))
  /\ tc_comments' = Tail(tc_comments)
  /\ tc_children' = tc_children + Len(tc_Children(Head(tc_comments)))
  /\ UNCHANGED <<tc_Others, script, net_last, net_unslept, budget, tc_input, tc_index, tc_all_comments, tc_output,
                 tc_n, tc_good>>

\* process_article_comments returns; main extends all_comments, sleeps
tc_ProcessReturn ==
  /\ script = "tto_comments" /\ tc_pc = "process" /\ tc_comments = <<>>
  /\ tc_all_comments' = tc_all_comments \o tc_result
  /\ tc_index' = tc_index + 1
  /\ tc_pc' = "article"
  /\ Net(<<"sleep">>)
  /\ UNCHANGED <<tc_Others, script, budget, tc_input, tc_comments, tc_result, tc_output,
                 tc_exit, tc_n, tc_good, tc_children>>

\* main: after the loop, write the rows if there are any, return 0
tc_Save ==
  /\ script = "tto_comments" /\ tc_pc = "article" /\ tc_index > NumArticles
  /\ tc_output' = IF tc_all_comments # <<>> THEN tc_all_comments ELSE tc_output
  /\ tc_exit' = 0
  /\ tc_pc' = "done"
  /\ UNCHANGED <<tc_Others, script, net_last, net_unslept, budget, tc_input, tc_index, tc_comments, tc_result,
                 tc_all_comments, tc_n, tc_good, tc_children>>

\* ============================================================ dantri/get_news
\* a record extract_articles returns for one result node
dn_Articles == [article_id : ArticleIds, title : Titles]
\* a result node of a page: what extract_article_id finds in its URL (None
\* when the URL does not end in -<digits>.htm) and its title
dn_Nodes == dn_Articles \cup [article_id : {None}, title : {"a"}]
dn_PageContents(max) == UNION {[1..n -> dn_Nodes] : n \in 0..max}

\* the response to the request for `page': it fails, or it arrives from a
\* final URL that echoes a page number (None without `pi=') and carries the
\* result nodes.  The site has fewer than MaxPage result pages, so the
\* request for page MaxPage overshoots or fails.
dn_Echoes == {None} \cup 1..MaxPage
dn_Responses(page, max) ==
  {rsp \in [ok : BOOLEAN, echo : dn_Echoes, articles : dn_PageContents(max)] :
     /\ ~rsp.ok => rsp.echo = None /\ rsp.articles = <<>>
     /\ page >= MaxPage => (~rsp.ok \/ (rsp.echo # None /\ rsp.echo < page))}

\* history: the final URL of the response echoes a page number below the
\* requested one
dn_Overshoot(rsp, page) == rsp.ok /\ rsp.echo \in 1..(page - 1)

\* mutant: the comparison of the echoed page number is reversed
is_last_page_Reversed(current_page, page) == current_page # None /\ current_page > page

\* search_dantri: is_last_page from the echoed page number
is_last_page(current_page, page) == current_page # None /\ current_page < page

\* mutant: a failed request does not end the pagination of the query
search_dantri_ErrorContinues(rsp, page) ==
  IF rsp.ok
    THEN [has_content |-> TRUE, html_content |-> rsp.articles,
          is_last_page |-> is_last_page(rsp.echo, page)]
    ELSE [has_content |-> FALSE, html_content |-> <<>>, is_last_page |-> FALSE]

\* search_dantri: (response.content, is_last_page), or (None, True) on error
search_dantri(rsp, page) ==
  IF rsp.ok
    THEN [has_content |-> TRUE, html_content |-> rsp.articles,
          is_last_page |-> is_last_page(rsp.echo, page)]
    ELSE [has_content |-> FALSE, html_content |-> <<>>, is_last_page |-> TRUE]

\* extract_articles: [] without content, else the records of the result
\* nodes, without the nodes whose URL yields no id
extract_articles(res) ==
  IF res.has_content
    THEN SelectSeq(res.html_content, LAMBDA node : Truthy(node.article_id))
    ELSE <<>>

\* mutant: a record that replaces an earlier one moves its key to the end
RECURSIVE dn_DictOf_MoveToEnd(_, _)
dn_DictOf_MoveToEnd(articles, d) ==
  IF articles = <<>> THEN d
  ELSE dn_DictOf_MoveToEnd(Tail(articles),
         Append(SelectSeq(d, LAMBDA e : e.key # Head(articles).article_id),
                [key |-> Head(articles).article_id, value |-> Head(articles)]))

\* {article['article_id']: article for article in all_articles}: a later
\* record replaces the value of its key, the key keeps its first position
RECURSIVE dn_DictOf(_, _)
dn_DictOf(articles, d) ==
  IF articles = <<>> THEN d
  ELSE dn_DictOf(Tail(articles), DictSet(d, Head(articles).article_id, Head(articles)))

\* mutant: the first record seen for an id is kept
RECURSIVE dn_DictOf_FirstWins(_, _)
dn_DictOf_FirstWins(articles, d) ==
  IF articles = <<>> THEN d
  ELSE dn_DictOf_FirstWins(Tail(articles),
         IF \E n \in 1..Len(d) : d[n].key = Head(articles).article_id
           THEN d ELSE Append(d, [key |-> Head(articles).article_id, value |-> Head(articles)]))

\* mutant of the whole deduplication step
dn_Unique_FirstWins(all_articles) ==
  LET d == dn_DictOf_FirstWins(all_articles, <<>>) IN [n \in 1..Len(d) |-> d[n].value]

\* list({...}.values())
dn_Unique(all_articles) ==
  LET d == dn_DictOf(all_articles, <<>>) IN [n \in 1..Len(d) |-> d[n].value]

dn_Init ==
  /\ dn_pc = "query"
  /\ dn_q = 1
  /\ dn_page = 1
  /\ dn_reached_last_page = FALSE
  /\ dn_query_articles = <<>>
  /\ dn_all_articles = <<>>
  /\ dn_unique = <<>>
  /\ dn_output = <<>>
  /\ dn_exit = None
  /\ dn_log = <<>>

dn_Idle ==
  /\ dn_pc = "idle"
  /\ dn_q = 1
  /\ dn_page = 1
  /\ dn_reached_last_page = FALSE
  /\ dn_query_articles = <<>>
  /\ dn_all_articles = <<>>
  /\ dn_unique = <<>>
  /\ dn_output = <<>>
  /\ dn_exit = None
  /\ dn_log = <<>>

\* main: the head of `for query in search_queries' and the resets before
\* the while loop
dn_StartQuery ==
  /\ script = "dantri_news" /\ dn_pc = "query" /\ dn_q <= NumQueries
  /\ dn_page' = 1
  /\ dn_reached_last_page' = FALSE
  /\ dn_query_articles' = <<>>
  /\ dn_pc' = "page"
  /\ UNCHANGED <<dn_Others, script, net_last, net_unslept, budget, dn_q, dn_all_articles, dn_unique, dn_output,
                 dn_exit, dn_log>>

\* main: one iteration of `while not reached_last_page'
dn_RequestPage ==
  /\ script = "dantri_news" /\ dn_pc = "page" /\ ~dn_reached_last_page
  /\ dn_page <= MaxPage
  /\ \E rsp \in dn_Responses(dn_page, budget) :
       LET res == search_dantri(rsp, dn_page)
           articles == extract_articles(res)
           reached == res.is_last_page
       IN /\ dn_reached_last_page' = reached
          /\ dn_query_articles' = IF res.has_content /\ articles # <<>>
                                    THEN dn_query_articles \o articles
                                    ELSE dn_query_articles
          /\ dn_page' = IF ~reached THEN dn_page + 1 ELSE dn_page
          /\ Net(IF ~reached THEN <<"request", "sleep">> ELSE <<"request">>)
          /\ dn_log' = Append(dn_log, [query |-> dn_q, page |-> dn_page, ok |-> rsp.ok,
                                       overshoot |-> dn_Overshoot(rsp, dn_page),
                                       articles |-> articles])
          /\ budget' = budget - Len(rsp.articles)
  /\ UNCHANGED <<dn_Others, script, dn_pc, dn_q, dn_all_articles, dn_unique, dn_output,
                 dn_exit>>

\* main: the while loop is left; all_articles.extend(query_articles)
dn_EndQuery ==
  /\ script = "dantri_news" /\ dn_pc = "page" /\ dn_reached_last_page
  /\ dn_all_articles' = dn_all_articles \o dn_query_articles
  /\ dn_q' = dn_q + 1
  /\ dn_pc' = "query"
  /\ UNCHANGED <<dn_Others, script, net_last, net_unslept, budget, dn_page, dn_reached_last_page,
                 dn_query_articles, dn_unique, dn_output, dn_exit, dn_log>>

\* main after the for loop: deduplicate, save_to_csv (no file without
\* articles), return 0
dn_Finish ==
  /\ script = "dantri_news" /\ dn_pc = "query" /\ dn_q > NumQueries
  /\ dn_unique' = dn_Unique(dn_all_articles)
  /\ dn_output' = dn_Unique(dn_all_articles)
  /\ dn_exit' = 0
  /\ dn_pc' = "done"
  /\ UNCHANGED <<dn_Others, script, net_last, net_unslept, budget, dn_q, dn_page, dn_reached_last_page,
                 dn_query_articles, dn_all_articles, dn_log>>

\* =============================================================== tto/get_news
\* a TuoiTre article id starts with the publication date (yyyymmdd); the
\* model writes an id as 10 * d + serial with d the date part, a day of
\* Dates when it is a calendar date
tn_DatePart(article_id) == article_id \div 10

\* extract_article_date: strptime of the first 8 characters, None when they
\* are not a date
extract_article_date(article_id) ==
  IF tn_DatePart(article_id) \in Dates THEN tn_DatePart(article_id) ELSE None

\* the result nodes of one page: what extract_article_id finds in the URL
\* of each, None when the URL has no -<14 digits or more>.htm
tn_PageContents(max) == UNION {[1..n -> tn_ArticleIds \cup {None}] : n \in 0..max}

Min(S) == CHOOSE x \in S : \A y \in S : x <= y

\* search_tuoitre_articles: (articles, oldest_date); ([], None) when the
\* request fails or the page has no result nodes
search_tuoitre_articles(ok, ids) ==
  LET found == SelectSeq(ids, LAMBDA article_id : Truthy(article_id))
      articles == [n \in 1..Len(found) |->
                     [article_id |-> found[n], date |-> extract_article_date(found[n])]]
      dates == {articles[n].date : n \in 1..Len(found)} \ {None}
  IN IF ok
       THEN [articles |-> articles, oldest_date |-> IF dates = {} THEN None ELSE Min(dates)]
       ELSE [articles |-> <<>>, oldest_date |-> None]

\* mutant: the end date is not tested
tn_InRange_OpenEnd(article, start_date, end_date) ==
  article.date # None /\ start_date <= article.date

\* main: filtered_articles
tn_InRange(article, start_date, end_date) ==
  article.date # None /\ start_date <= article.date /\ article.date <= end_date
tn_Filtered(articles, start_date, end_date) ==
  SelectSeq(articles, LAMBDA a : tn_InRange(a, start_date, end_date))

\* mutant: a page that triggers the date stop is dropped before it is added
tn_Accumulate_StopFirst(all_articles, filtered_articles, oldest_date, start_date) ==
  IF oldest_date # None /\ oldest_date < start_date
    THEN all_articles ELSE all_articles \o filtered_articles

\* main: all_articles.extend(filtered_articles), before the date test
tn_Accumulate(all_articles, filtered_articles, oldest_date, start_date) ==
  all_articles \o filtered_articles

\* mutant: a page with records leaves the counter as it is
tn_EmptyCount_NoReset(empty_pages_count, articles) ==
  IF articles = <<>> THEN empty_pages_count + 1 ELSE empty_pages_count

\* mutant: the counter is reset before it is tested
tn_EmptyCount_AlwaysReset(empty_pages_count, articles) == 0

\* main: empty_pages_count after a page
tn_EmptyCount(empty_pages_count, articles) ==
  IF articles = <<>> THEN empty_pages_count + 1 ELSE 0

\* all_articles.sort(key=date, reverse=True): stable, newest first
RECURSIVE tn_InsertDesc(_, _)
tn_InsertDesc(sorted, a) ==
  IF sorted = <<>> THEN <<a>>
  ELSE IF Head(sorted).date >= a.date THEN <<Head(sorted)>> \o tn_InsertDesc(Tail(sorted), a)
  ELSE <<a>> \o sorted
RECURSIVE tn_SortDesc(_, _)
tn_SortDesc(articles, sorted) ==
  IF articles = <<>> THEN sorted
  ELSE tn_SortDesc(Tail(articles), tn_InsertDesc(sorted, Head(articles)))

\* save_to_csv: the rows, without the internal date field
tn_Rows(articles) == [n \in 1..Len(articles) |-> [article_id |-> articles[n].article_id]]

tn_Init ==
  /\ tn_pc = "args"
  /\ \E d \in tn_DateArgs : tn_start_date = d[1] /\ tn_end_date = d[2]
  /\ tn_max_empty_pages \in 0..MaxEmptyPages
  /\ tn_page_index = 1
  /\ tn_empty_pages_count = 0
  /\ tn_reached_start_date = FALSE
  /\ tn_all_articles = <<>>
  /\ tn_output = <<>>
  /\ tn_exit = None
  /\ tn_log = <<>>

tn_Idle ==
  /\ tn_pc = "idle"
  /\ tn_start_date = None
  /\ tn_end_date = None
  /\ tn_max_empty_pages = 0
  /\ tn_page_index = 1
  /\ tn_empty_pages_count = 0
  /\ tn_reached_start_date = FALSE
  /\ tn_all_articles = <<>>
  /\ tn_output = <<>>
  /\ tn_exit = None
  /\ tn_log = <<>>

\* main: date parsing and the range test, return 1 on either error
tn_ParseArgs ==
  /\ script = "tto_news" /\ tn_pc = "args"
  /\ IF tn_start_date = None \/ tn_end_date = None \/ tn_start_date > tn_end_date
       THEN tn_pc' = "done" /\ tn_exit' = 1
       ELSE tn_pc' = "loop" /\ tn_exit' = tn_exit
  /\ UNCHANGED <<tn_Others, script, net_last, net_unslept, budget, tn_start_date, tn_end_date, tn_max_empty_pages,
                 tn_page_index, tn_empty_pages_count, tn_reached_start_date,
                 tn_all_articles, tn_output, tn_log>>

\* mutant: a failed request is made again
tn_RequestPage_Retries ==
  /\ script = "tto_news" /\ tn_pc = "loop"
  /\ ~tn_reached_start_date /\ tn_empty_pages_count < tn_max_empty_pages
  /\ \E ok \in BOOLEAN, ids \in tn_PageContents(budget) :
       LET res == search_tuoitre_articles(ok, ids)
           articles == res.articles
           oldest_date == res.oldest_date
           filtered_articles == tn_Filtered(articles, tn_start_date, tn_end_date)
           stop == oldest_date # None /\ oldest_date < tn_start_date
       IN /\ ~ok => ids = <<>>
          /\ budget' = budget - Len(ids)
          /\ tn_log' = Append(tn_log, [page |-> tn_page_index, ok |-> ok,
                                       articles |-> articles])
          /\ tn_empty_pages_count' = tn_EmptyCount(tn_empty_pages_count, articles)
          /\ IF articles = <<>>
               THEN /\ tn_page_index' = IF ok THEN tn_page_index + 1 ELSE tn_page_index
                    /\ Net(<<"request", "sleep">>)
                    /\ UNCHANGED <<tn_all_articles, tn_reached_start_date>>
               ELSE /\ tn_all_articles' = tn_Accumulate(tn_all_articles, filtered_articles,
                                                        oldest_date, tn_start_date)
                    /\ tn_reached_start_date' = stop
                    /\ tn_page_index' = IF stop THEN tn_page_index ELSE tn_page_index + 1
                    /\ Net(IF stop THEN <<"request">> ELSE <<"request", "sleep">>)
  /\ UNCHANGED <<tn_Others, script, tn_pc, tn_start_date, tn_end_date, tn_max_empty_pages,
                 tn_output, tn_exit>>

\* mutant: a failed request is taken as the end of the results
tn_RequestPage_FailureEnds ==
  /\ script = "tto_news" /\ tn_pc = "loop"
  /\ ~tn_reached_start_date /\ tn_empty_pages_count < tn_max_empty_pages
  /\ \E ok \in BOOLEAN, ids \in tn_PageContents(budget) :
       LET res == search_tuoitre_articles(ok, ids)
           articles == res.articles
           oldest_date == res.oldest_date
           filtered_articles == tn_Filtered(articles, tn_start_date, tn_end_date)
           stop == oldest_date # None /\ oldest_date < tn_start_date
       IN /\ ~ok => ids = <<>>
          /\ budget' = budget - Len(ids)
          /\ tn_log' = Append(tn_log, [page |-> tn_page_index, ok |-> ok,
                                       articles |-> articles])
          /\ tn_empty_pages_count' = tn_EmptyCount(tn_empty_pages_count, articles)
          /\ IF articles = <<>>
               THEN /\ tn_page_index' = tn_page_index + 1
                    /\ Net(<<"request", "sleep">>)
                    /\ tn_reached_start_date' = ~ok
                    /\ UNCHANGED tn_all_articles
               ELSE /\ tn_all_articles' = tn_Accumulate(tn_all_articles, filtered_articles,
                                                        oldest_date, tn_start_date)
                    /\ tn_reached_start_date' = stop
                    /\ tn_page_index' = IF stop THEN tn_page_index ELSE tn_page_index + 1
                    /\ Net(IF stop THEN <<"request">> ELSE <<"request", "sleep">>)
  /\ UNCHANGED <<tn_Others, script, tn_pc, tn_start_date, tn_end_date, tn_max_empty_pages,
                 tn_output, tn_exit>>

\* main: one iteration of the while loop
tn_RequestPage ==
  /\ script = "tto_news" /\ tn_pc = "loop"
  /\ ~tn_reached_start_date /\ tn_empty_pages_count < tn_max_empty_pages
  /\ \E ok \in BOOLEAN, ids \in tn_PageContents(budget) :
       LET res == search_tuoitre_articles(ok, ids)
           articles == res.articles
           oldest_date == res.oldest_date
           filtered_articles == tn_Filtered(articles, tn_start_date, tn_end_date)
           stop == oldest_date # None /\ oldest_date < tn_start_date
       IN /\ ~ok => ids = <<>>
          /\ budget' = budget - Len(ids)
          /\ tn_log' = Append(tn_log, [page |-> tn_page_index, ok |-> ok,
                                       articles |-> articles])
          /\ tn_empty_pages_count' = tn_EmptyCount(tn_empty_pages_count, articles)
          /\ IF articles = <<>>
               THEN /\ tn_page_index' = tn_page_index + 1
                    /\ Net(<<"request", "sleep">>)
                    /\ UNCHANGED <<tn_all_articles, tn_reached_start_date>>
               ELSE /\ tn_all_articles' = tn_Accumulate(tn_all_articles, filtered_articles,
                                                        oldest_date, tn_start_date)
                    /\ tn_reached_start_date' = stop
                    /\ tn_page_index' = IF stop THEN tn_page_index ELSE tn_page_index + 1
                    /\ Net(IF stop THEN <<"request">> ELSE <<"request", "sleep">>)
  /\ UNCHANGED <<tn_Others, script, tn_pc, tn_start_date, tn_end_date, tn_max_empty_pages,
                 tn_output, tn_exit>>

\* main after the loop: sort, save_to_csv if there are articles, return 0
tn_Finish ==
  /\ script = "tto_news" /\ tn_pc = "loop"
  /\ tn_reached_start_date \/ tn_empty_pages_count >= tn_max_empty_pages
  /\ tn_all_articles' = tn_SortDesc(tn_all_articles, <<>>)
  /\ tn_output' = tn_Rows(tn_SortDesc(tn_all_articles, <<>>))
  /\ tn_exit' = 0
  /\ tn_pc' = "done"
  /\ UNCHANGED <<tn_Others, script, net_last, net_unslept, budget, tn_start_date, tn_end_date, tn_max_empty_pages,
                 tn_page_index, tn_empty_pages_count, tn_reached_start_date, tn_log>>

\* ====================================================== vnexpress/clean_old_csv
\* a CSV file on disk: the fields of its first line (<<>> for an empty file
\* or a blank first line) and of its other lines (<<>> for a blank line)
cc_NoFile == [exists |-> FALSE, header |-> <<>>, rows |-> <<>>]
cc_Lines == SeqsUpTo(cc_Values, MaxFields + 1)
cc_Files ==
  {cc_NoFile} \cup
  [exists : {TRUE}, header : SeqsUpTo(cc_Columns, MaxFields), rows : SeqsUpTo(cc_Lines, MaxRows)]

\* csv.DictReader: the value of `field' in the dict of a line: that of the
\* last column with this name, None (restval) when the line is too short
cc_LastCol(fieldnames, field) ==
  CHOOSE i \in 1..Len(fieldnames) :
    fieldnames[i] = field /\ \A j \in (i + 1)..Len(fieldnames) : fieldnames[j] # field
cc_DictValue(fieldnames, line, field) ==
  IF cc_LastCol(fieldnames, field) <= Len(line)
    THEN line[cc_LastCol(fieldnames, field)] ELSE None

\* csv.DictReader: blank lines are skipped
cc_DataLines(rows) == SelectSeq(rows, LAMBDA line : line # <<>>)

\* new_fields = [field for field in all_fields if field not in columns_to_remove]
cc_new_fields(all_fields, columns_to_remove) ==
  SelectSeq(all_fields, LAMBDA field : field \notin columns_to_remove)

\* csv.DictWriter: None is written as the empty string
cc_Written(value) == IF value = None THEN EmptyStr ELSE value

\* the line written for one line read: new_row in the order of new_fields
cc_new_row(all_fields, new_fields, line) ==
  [i \in 1..Len(new_fields) |-> cc_Written(cc_DictValue(all_fields, line, new_fields[i]))]

\* mutant: a file that has none of the columns to remove is an error
clean_csv_NothingToDo(input_file, output_file, columns_to_remove) ==
  IF ~input_file.exists \/ input_file.header = <<>>
       \/ cc_new_fields(input_file.header, columns_to_remove) = input_file.header
    THEN [ret |-> FALSE, output_file |-> output_file]
    ELSE LET all_fields == input_file.header
             new_fields == cc_new_fields(all_fields, columns_to_remove)
             lines == cc_DataLines(input_file.rows)
         IN [ret |-> TRUE,
             output_file |->
               [exists |-> TRUE, header |-> new_fields,
                rows |-> [n \in 1..Len(lines) |-> cc_new_row(all_fields, new_fields, lines[n])]]]

\* clean_csv: False without an input file or without fieldnames, else the
\* output file is written with the remaining columns and True is returned
clean_csv(input_file, output_file, columns_to_remove) ==
  IF ~input_file.exists \/ input_file.header = <<>>
    THEN [ret |-> FALSE, output_file |-> output_file]
    ELSE LET all_fields == input_file.header
             new_fields == cc_new_fields(all_fields, columns_to_remove)
             lines == cc_DataLines(input_file.rows)
         IN [ret |-> TRUE,
             output_file |->
               [exists |-> TRUE, header |-> new_fields,
                rows |-> [n \in 1..Len(lines) |-> cc_new_row(all_fields, new_fields, lines[n])]]]

cc_Init ==
  /\ cc_pc = "first"
  /\ cc_input \in cc_Files
  /\ cc_columns \in SUBSET cc_Columns
  /\ cc_out1 = cc_NoFile
  /\ cc_ret1 = FALSE
  /\ cc_out2 = cc_NoFile
  /\ cc_ret2 = FALSE
  /\ cc_exit = None

cc_Idle ==
  /\ cc_pc = "idle"
  /\ cc_input = cc_NoFile
  /\ cc_columns = {}
  /\ cc_out1 = cc_NoFile
  /\ cc_ret1 = FALSE
  /\ cc_out2 = cc_NoFile
  /\ cc_ret2 = FALSE
  /\ cc_exit = None

\* main: a run on the input file, writing a new output file
cc_Clean ==
  /\ script = "clean_old_csv" /\ cc_pc = "first"
  /\ LET res == clean_csv(cc_input, cc_NoFile, cc_columns)
     IN /\ cc_ret1' = res.ret
        /\ cc_out1' = res.output_file
        /\ cc_exit' = IF res.ret THEN 0 ELSE 1
  /\ cc_pc' = "second"
  /\ UNCHANGED <<cc_Others, script, cc_input, cc_columns, cc_out2, cc_ret2>>

\* main: a second run, on the output file of the first, with the same
\* --columns, writing another new output file
cc_CleanAgain ==
  /\ script = "clean_old_csv" /\ cc_pc = "second"
  /\ LET res == clean_csv(cc_out1, cc_NoFile, cc_columns)
     IN /\ cc_ret2' = res.ret
        /\ cc_out2' = res.output_file
        /\ cc_exit' = IF res.ret THEN 0 ELSE 1
  /\ cc_pc' = "done"
  /\ UNCHANGED <<cc_Others, script, cc_input, cc_columns, cc_out1, cc_ret1>>

\* ======================================================== vnexpress/search_bar
\* a result node of the search page: an ad, or an item with its URL
\* (data-url or the href of the title link) and its title: no h3 at all
\* (Missing), an h3 without link (None), an empty text or a text (1)
sb_Titles == {Missing, None, EmptyStr, 1}
sb_Nodes == [ad : {TRUE}, url : {NoUrl}, title : {Missing}]
            \cup [ad : {FALSE}, url : Urls, title : sb_Titles]

\* extract_article_id: re.search(r'\/(\d+)\.html', url)
sb_extract_article_id(url) == IF url.form = "bare" THEN url.id ELSE None

\* parse_search_results: the node is appended when it is no ad, has a URL
\* and a title text; looking for the link of a missing h3 raises, which
\* skips the node
sb_Appended(node) ==
  /\ ~node.ad
  /\ node.url # NoUrl
  /\ node.title \notin {Missing, None}
  /\ Truthy(node.title)

\* parse_search_results: what one node adds to articles
sb_Record(node) ==
  IF sb_Appended(node)
    THEN <<[article_id |-> sb_extract_article_id(node.url), url |-> node.url]>>
    ELSE <<>>

sb_Init ==
  /\ sb_pc = "page"
  /\ sb_page = 1
  /\ sb_left = 0
  /\ sb_all_articles = <<>>
  /\ sb_written = FALSE
  /\ sb_output = <<>>
  /\ sb_exit = None

sb_Idle ==
  /\ sb_pc = "idle"
  /\ sb_page = 1
  /\ sb_left = 0
  /\ sb_all_articles = <<>>
  /\ sb_written = FALSE
  /\ sb_output = <<>>
  /\ sb_exit = None

\* main: time.sleep(1) unless the page is the last one
sb_Delay == IF sb_page < sb_LastPage THEN <<"sleep">> ELSE <<>>

\* main: search_vnexpress for the page; a failed request (None) ends the
\* iteration, a response is handed to parse_search_results
sb_RequestPage ==
  /\ script = "vnexpress_search" /\ sb_pc = "page" /\ sb_page <= sb_LastPage
  /\ \E ok \in BOOLEAN, n \in 0..budget :
       IF ok
         THEN /\ sb_pc' = "parse"
              /\ sb_left' = n
              /\ budget' = budget - n
              /\ sb_page' = sb_page
              /\ Net(<<"request">>)
         ELSE /\ n = 0
              /\ sb_pc' = "page"
              /\ sb_left' = 0
              /\ budget' = budget
              /\ sb_page' = sb_page + 1
              /\ Net(<<"request">> \o sb_Delay)
  /\ UNCHANGED <<sb_Others, script, sb_all_articles, sb_written, sb_output, sb_exit>>

\* parse_search_results: one iteration of `for item in article_items'
sb_ParseNode ==
  /\ script = "vnexpress_search" /\ sb_pc = "parse" /\ sb_left > 0
  /\ \E node \in sb_Nodes :
       sb_all_articles' = sb_all_articles \o sb_Record(node)
  /\ sb_left' = sb_left - 1
  /\ UNCHANGED <<sb_Others, script, budget, net_last, net_unslept, sb_pc, sb_page,
                 sb_written, sb_output, sb_exit>>

\* main: the page is parsed; the delay, then the next page
sb_EndPage ==
  /\ script = "vnexpress_search" /\ sb_pc = "parse" /\ sb_left = 0
  /\ sb_pc' = "page"
  /\ sb_page' = sb_page + 1
  /\ Net(sb_Delay)
  /\ UNCHANGED <<sb_Others, script, budget, sb_left, sb_all_articles, sb_written,
                 sb_output, sb_exit>>

\* main after the loop: save_to_csv writes the file whatever the list
\* holds; main returns without a value
sb_Save ==
  /\ script = "vnexpress_search" /\ sb_pc = "page" /\ sb_page > sb_LastPage
  /\ sb_written' = TRUE
  /\ sb_output' = sb_all_articles
  /\ sb_exit' = 0
  /\ sb_pc' = "done"
  /\ UNCHANGED <<sb_Others, script, budget, net_last, net_unslept, sb_page, sb_left,
                 sb_all_articles>>

\* ================================================= vnexpress/article_available
\* an <article> node of the topic page: whether it has a <div>, and the
\* href of the first link in it
aa_Nodes == [div : {FALSE}, url : {NoUrl}] \cup [div : {TRUE}, url : Urls]

\* extract_article_id: re.search(r'-(\d+)\.html$', url)
aa_extract_article_id(url) == IF url.form = "slug" THEN url.id ELSE None

\* scrape_vnexpress_topic: what one node adds to all_articles; a node
\* without <div> raises and is skipped, a node without link is skipped
aa_Record(node) ==
  IF node.div /\ node.url # NoUrl
    THEN <<[article_id |-> aa_extract_article_id(node.url), url |-> node.url]>>
    ELSE <<>>

aa_Init ==
  /\ aa_pc = "page"
  /\ aa_page_num = 1
  /\ aa_left = 0
  /\ aa_all_articles = <<>>
  /\ aa_output = <<>>
  /\ aa_exit = None

aa_Idle ==
  /\ aa_pc = "idle"
  /\ aa_page_num = 1
  /\ aa_left = 0
  /\ aa_all_articles = <<>>
  /\ aa_output = <<>>
  /\ aa_exit = None

\* scrape_vnexpress_topic: the request for one page; a failed request and
\* a page without the list-news container go straight on to the next page
aa_RequestPage ==
  /\ script = "vnexpress_topic" /\ aa_pc = "page" /\ aa_page_num <= num_pages
  /\ \E ok \in BOOLEAN, list_news \in BOOLEAN, n \in 0..budget :
       IF ok /\ list_news
         THEN /\ aa_pc' = "parse"
              /\ aa_left' = n
              /\ budget' = budget - n
              /\ aa_page_num' = aa_page_num
         ELSE /\ n = 0 /\ (~ok => ~list_news)
              /\ aa_pc' = "page"
              /\ aa_left' = 0
              /\ budget' = budget
              /\ aa_page_num' = aa_page_num + 1
  /\ Net(<<"request">>)
  /\ UNCHANGED <<aa_Others, script, aa_all_articles, aa_output, aa_exit>>

\* scrape_vnexpress_topic: one iteration of `for article in articles'
aa_ParseNode ==
  /\ script = "vnexpress_topic" /\ aa_pc = "parse" /\ aa_left > 0
  /\ \E node \in aa_Nodes :
       aa_all_articles' = aa_all_articles \o aa_Record(node)
  /\ aa_left' = aa_left - 1
  /\ UNCHANGED <<aa_Others, script, budget, net_last, net_unslept, aa_pc, aa_page_num,
                 aa_output, aa_exit>>

\* scrape_vnexpress_topic: the nodes of the page are done; time.sleep(1)
aa_EndPage ==
  /\ script = "vnexpress_topic" /\ aa_pc = "parse" /\ aa_left = 0
  /\ aa_pc' = "page"
  /\ aa_page_num' = aa_page_num + 1
  /\ Net(<<"sleep">>)
  /\ UNCHANGED <<aa_Others, script, budget, aa_left, aa_all_articles, aa_output, aa_exit>>

\* main: save_to_csv writes no file without articles; main returns
\* without a value
aa_Save ==
  /\ script = "vnexpress_topic" /\ aa_pc = "page" /\ aa_page_num > num_pages
  /\ aa_output' = IF aa_all_articles = <<>> THEN aa_output ELSE aa_all_articles
  /\ aa_exit' = 0
  /\ aa_pc' = "done"
  /\ UNCHANGED <<aa_Others, script, budget, net_last, net_unslept, aa_page_num, aa_left,
                 aa_all_articles>>

\* ================================================================ the system
vars == <<script, budget, netVars, dcVars, vcVars, tcVars, dnVars, tnVars, ccVars,
          sbVars, aaVars>>

Init ==
  /\ script \in Scripts
  /\ budget = IF script \in {"dantri_news", "tto_news", "vnexpress_search", "vnexpress_topic"}
                THEN MaxResults ELSE MaxComments
  /\ net_last = "none"
  /\ net_unslept = FALSE
  /\ IF script = "dantri_comments" THEN dc_Init ELSE dc_Idle
  /\ IF script = "vnexpress_comments" THEN vc_Init ELSE vc_Idle
  /\ IF script = "tto_comments" THEN tc_Init ELSE tc_Idle
  /\ IF script = "dantri_news" THEN dn_Init ELSE dn_Idle
  /\ IF script = "tto_news" THEN tn_Init ELSE tn_Idle
  /\ IF script = "clean_old_csv" THEN cc_Init ELSE cc_Idle
  /\ IF script = "vnexpress_search" THEN sb_Init ELSE sb_Idle
  /\ IF script = "vnexpress_topic" THEN aa_Init ELSE aa_Idle

Next ==
  \/ dc_ReadInput
  \/ dc_FetchArticle
  \/ dc_ProcessComment
  \/ dc_ProcessReturn
  \/ dc_Save
  \/ vc_ReadInput
  \/ vc_SkipArticle
  \/ vc_FetchArticle
  \/ vc_ProcessComment
  \/ vc_Return
  \/ vc_Save
  \/ vc_Update
  \/ tc_ReadInput
  \/ tc_FetchArticle
  \/ tc_ProcessComment
  \/ tc_ProcessReturn
  \/ tc_Save
  \/ dn_StartQuery
  \/ dn_RequestPage
  \/ dn_EndQuery
  \/ dn_Finish
  \/ tn_ParseArgs
  \/ tn_RequestPage
  \/ tn_Finish
  \/ cc_Clean
  \/ cc_CleanAgain
  \/ sb_RequestPage
  \/ sb_ParseNode
  \/ sb_EndPage
  \/ sb_Save
  \/ aa_RequestPage
  \/ aa_ParseNode
  \/ aa_EndPage
  \/ aa_Save

Spec == Init /\ [][Next]_vars

\* ------------------------------------------- termination of the two searches
\* the response of a Dantri site that may have any number of result pages:
\* no page number is bound to overshoot
dn_AnyResponses(max) ==
  {rsp \in [ok : BOOLEAN, echo : dn_Echoes, articles : dn_PageContents(max)] :
     ~rsp.ok => rsp.echo = None /\ rsp.articles = <<>>}

\* main: one iteration of `while not reached_last_page' against such a
\* site.  The page numbers from MaxPage on are told apart by their parity
\* only (MaxPage, MaxPage + 1, MaxPage, ...), and the request log is not
\* kept.
dn_RequestAnyPage ==
  /\ script = "dantri_news" /\ dn_pc = "page" /\ ~dn_reached_last_page
  /\ \E rsp \in dn_AnyResponses(budget) :
       LET res == search_dantri(rsp, dn_page)
           articles == extract_articles(res)
           reached == res.is_last_page
       IN /\ dn_reached_last_page' = reached
          /\ dn_query_articles' = IF res.has_content /\ articles # <<>>
                                    THEN dn_query_articles \o articles
                                    ELSE dn_query_articles
          /\ dn_page' = IF reached THEN dn_page
                        ELSE IF dn_page <= MaxPage THEN dn_page + 1 ELSE MaxPage
          /\ Net(IF ~reached THEN <<"request", "sleep">> ELSE <<"request">>)
          /\ budget' = budget - Len(rsp.articles)
  /\ UNCHANGED <<dn_Others, script, dn_pc, dn_q, dn_all_articles, dn_unique, dn_output,
                 dn_exit, dn_log>>

TermInit == Init /\ script \in {"dantri_news", "tto_news"}

TermNext ==
  \/ dn_StartQuery
  \/ dn_RequestAnyPage
  \/ dn_EndQuery
  \/ dn_Finish
  \/ tn_ParseArgs
  \/ tn_RequestPage
  \/ tn_Finish

\* the scripts are sequential programs: a run always takes its next step
TermSpec == TermInit /\ [][TermNext]_vars /\ WF_vars(TermNext)

\* ==================================================================== claims
CommentIds(rows) == [i \in 1..Len(rows) |-> rows[i].comment_id]
ContentIds(rows) == [i \in 1..Len(rows) |-> rows[i].content]
IsTopId(id) == id >= 1 /\ id < 100
ArticleRows(rows, a) == SelectSeq(rows, LAMBDA r : r.article_id = a)

\* a reply id directly follows its owner (as first reply) or the reply
\* returned just before it; top-level ids keep the payload order
ReplyOrderOk(ids) ==
  /\ \A i \in 1..Len(ids) :
       IsReplyId(ids[i]) =>
         /\ i > 1
         /\ \/ ids[i - 1] = OwnerOf(ids[i]) /\ PosOf(ids[i]) = 1
            \/ /\ IsReplyId(ids[i - 1])
               /\ OwnerOf(ids[i - 1]) = OwnerOf(ids[i])
               /\ PosOf(ids[i]) = PosOf(ids[i - 1]) + 1
  /\ \A i, j \in 1..Len(ids) :
       (i < j /\ IsTopId(ids[i]) /\ IsTopId(ids[j])) => ids[i] < ids[j]

\* every reply row names its owner as parent and the owner's row is there
ParentLinked(rows) ==
  \A i \in 1..Len(rows) :
    IsReplyId(rows[i].comment_id) =>
      /\ rows[i].parent_id = OwnerOf(rows[i].comment_id)
      /\ \E j \in 1..Len(rows) :
           /\ rows[j].article_id = rows[i].article_id
           /\ ~IsReplyId(rows[j].comment_id)
           /\ rows[j].comment_id = rows[i].parent_id

dc_Returning == script = "dantri_comments" /\ dc_pc = "process" /\ dc_comments = <<>>
vc_Returning == script = "vnexpress_comments" /\ vc_pc = "comment" /\ vc_comments = <<>>
tc_Returning == script = "tto_comments" /\ tc_pc = "process" /\ tc_comments = <<>>

\* C1 as stated: when process_comments returns, the list has N rows plus one
\* row for every item the reply endpoint holds for the N comments, and every
\* reply row has the id of its top-level comment as parent_id.
C1_AllEndpointReplies ==
  dc_Returning => Len(dc_result) = dc_n + dc_endpoint /\ ParentLinked(dc_result)

\* C1 amended: when process_comments returns, the list has N rows plus one
\* row for every item returned by the reply request of a comment whose
\* declared replyCount is positive (none when that request fails), and
\* every reply row has the id of its top-level comment as parent_id.
C1_FetchedReplies ==
  dc_Returning => Len(dc_result) = dc_n + dc_fetched /\ ParentLinked(dc_result)

C1_Witness ==
  /\ dc_Returning
  /\ dc_n = 2
  /\ dc_fetched = 2
  /\ dc_endpoint > dc_fetched

\* C2: no orphan replies in the VnExpress output: every written row of an
\* item of the reply endpoint has as parent_id the comment_id of the
\* top-level row, of the same article, under which it was fetched.
C2_NoOrphanReplies == ParentLinked(vc_output)

\* C3: within one article every top-level row is directly followed by the
\* rows of all its replies in the order they were returned, then by the next
\* top-level row, in the Dantri, VnExpress and TuoiTre flatteners.
C3_RowOrder ==
  /\ ReplyOrderOk(CommentIds(dc_result))
  /\ dc_Returning => Len(dc_result) = dc_n + dc_fetched
  /\ \A a \in 1..NumArticles : ReplyOrderOk(CommentIds(ArticleRows(dc_output, a)))
  /\ ReplyOrderOk(CommentIds(vc_all_comments))
  /\ vc_Returning => Len(vc_all_comments) = vc_n + vc_fetched
  /\ \A a \in 1..NumArticles : ReplyOrderOk(CommentIds(ArticleRows(vc_output, a)))
  /\ ReplyOrderOk(ContentIds(tc_result))
  /\ tc_Returning => Len(tc_result) = tc_n + tc_children
  /\ \A a \in 1..NumArticles : ReplyOrderOk(ContentIds(ArticleRows(tc_output, a)))

C3_Witness ==
  /\ dc_Returning
  /\ Len(dc_result) = 4
  /\ CommentIds(dc_result) = <<1, ReplyId(1, 1), ReplyId(1, 2), 2>>

\* C4: every row of a top-level comment has is_reply false and every row of
\* an item of the reply fetch has is_reply true, whatever the items carry.
C4_ReplyFlag ==
  /\ \A i \in 1..Len(dc_result) :
       dc_result[i].is_reply = IsReplyId(dc_result[i].comment_id)
  /\ \A i \in 1..Len(vc_output) :
       (vc_output[i].is_reply = "Yes") = IsReplyId(vc_output[i].comment_id)

\* C10: a comment-fetch run that has read its input is never aborted by a
\* network or parse error: it ends having visited every article, with exit
\* code 0 and all accumulated rows written.
C10_NeverAborts ==
  /\ (dc_pc = "done" /\ dc_input = "ok") =>
       dc_index > NumArticles /\ dc_exit = 0 /\ dc_output = dc_all_comments
  /\ (tc_pc = "done" /\ tc_input = "ok") =>
       tc_index > NumArticles /\ tc_exit = 0 /\ tc_output = tc_all_comments
  /\ (vc_pc = "done" /\ vc_input = "ok" /\ vc_articles # <<>>) =>
       vc_i > Len(vc_articles) /\ vc_exit = 0 /\ vc_output = vc_CommentsData(vc_awc)

\* rows of top-level comments among `rows'
TopRows(rows) == SelectSeq(rows, LAMBDA r : ~IsReplyId(r.comment_id))

\* the article the Dantri / TuoiTre loop worked on last
dc_LastArticle == IF dc_index > NumArticles THEN NumArticles ELSE dc_index
tc_LastArticle == IF tc_index > NumArticles THEN NumArticles ELSE tc_index

\* C11: when an item of an article's payload is malformed so that processing
\* it raises, only that record is dropped: the article's output still has a
\* row for every other comment (and embedded reply) of the payload that is
\* processed without raising.
C11_RecordIsolation ==
  /\ (script = "dantri_comments" /\ dc_pc = "done" /\ dc_input = "ok") =>
       Len(TopRows(ArticleRows(dc_output, dc_LastArticle))) >= dc_good
  /\ (script = "tto_comments" /\ tc_pc = "done" /\ tc_input = "ok") =>
       Len(ArticleRows(tc_output, tc_LastArticle)) >= tc_good
  /\ (script = "vnexpress_comments" /\ vc_pc = "done" /\ vc_exit = 0
        /\ vc_articles # <<>> /\ Truthy(vc_articles[Len(vc_articles)])) =>
       Len(TopRows(ArticleRows(vc_output, vc_articles[Len(vc_articles)]))) >= vc_good

\* the entries of the Dantri request log that belong to query q
dn_LogOf(q) == SelectSeq(dn_log, LAMBDA e : e.query = q)
dn_EntryArticles(entries) == Flatten([n \in 1..Len(entries) |-> entries[n].articles])

\* C5: the records parsed from the response to an overshoot request are not
\* collected: during the page loop of a query, query_articles holds exactly
\* the records of the pages requested before the overshoot.
C5_OvershootDiscarded ==
  (script = "dantri_news" /\ dn_pc = "page") =>
    dn_query_articles =
      dn_EntryArticles(SelectSeq(dn_LogOf(dn_q), LAMBDA e : ~e.overshoot))

\* C6: once the request for page N of a query comes back with an echoed
\* page number below N, no further page of that query is requested and the
\* loop of that query is left for the next query.
C6_StopsAtOvershoot ==
  /\ \A i, j \in 1..Len(dn_log) :
       (i < j /\ dn_log[i].overshoot) => dn_log[j].query > dn_log[i].query
  /\ (dn_pc = "page" /\ dn_log # <<>> /\ dn_log[Len(dn_log)].query = dn_q
        /\ dn_log[Len(dn_log)].overshoot) => dn_reached_last_page

C6_Witness ==
  \E i, j \in 1..Len(dn_log) :
    /\ i < j
    /\ dn_log[i].overshoot /\ dn_log[i].page = 2
    /\ dn_log[j].query = dn_log[i].query + 1

dn_LastEntry == dn_log[Len(dn_log)]
dn_AfterFailure ==
  /\ script = "dantri_news" /\ dn_pc = "page" /\ dn_log # <<>>
  /\ dn_LastEntry.query = dn_q /\ ~dn_LastEntry.ok

C13_InputErrorsExit1 ==
  /\ (script = "dantri_comments" /\ dc_pc = "done" /\ dc_input # "ok") =>
       dc_exit = 1 /\ net_last = "none"
  /\ (script = "tto_comments" /\ tc_pc = "done" /\ tc_input # "ok") =>
       tc_exit = 1 /\ net_last = "none"
  /\ (script = "vnexpress_comments" /\ vc_pc = "done" /\ vc_input = "missing") =>
       vc_exit = 1 /\ net_last = "none"
  /\ (script = "tto_news" /\ tn_pc = "done"
        /\ (tn_start_date = None \/ tn_end_date = None)) =>
       tn_exit = 1 /\ net_last = "none"

\* a run that has come to the end of its crawl loop and past its write step
dc_Crawled == script = "dantri_comments" /\ dc_pc = "done" /\ dc_index > NumArticles
tc_Crawled == script = "tto_comments" /\ tc_pc = "done" /\ tc_index > NumArticles
vc_Crawled ==
  /\ script = "vnexpress_comments" /\ vc_pc = "done"
  /\ vc_articles # <<>> /\ vc_i > Len(vc_articles)
dn_Crawled == script = "dantri_news" /\ dn_pc = "done"
tn_Crawled ==
  /\ script = "tto_news" /\ tn_pc = "done"
  /\ tn_start_date # None /\ tn_end_date # None /\ tn_start_date <= tn_end_date
sb_Crawled == script = "vnexpress_search" /\ sb_pc = "done"
aa_Crawled == script = "vnexpress_topic" /\ aa_pc = "done"

\* C14 as stated: a run that ends with no accumulated rows terminates with
\* a non-zero exit code, and a run with at least one accumulated row does
\* not fail at the write step.
C14_FailsOnZeroRows ==
  /\ dc_Crawled => (dc_exit # 0) = (dc_all_comments = <<>>)
  /\ tc_Crawled => (tc_exit # 0) = (tc_all_comments = <<>>)
  /\ vc_Crawled => (vc_exit # 0) = (vc_CommentsData(vc_awc) = <<>>)
  /\ dn_Crawled => (dn_exit # 0) = (dn_unique = <<>>)
  /\ tn_Crawled => (tn_exit # 0) = (tn_all_articles = <<>>)
  /\ sb_Crawled => (sb_exit # 0) = (sb_all_articles = <<>>)
  /\ aa_Crawled => (aa_exit # 0) = (aa_all_articles = <<>>)

\* the VnExpress comment run is past its write step
vc_Saved ==
  /\ script = "vnexpress_comments" /\ vc_pc \in {"update", "done"}
  /\ vc_articles # <<>> /\ vc_i > Len(vc_articles)

\* C14 amended: the write step never fails the run: a run that ends with no
\* accumulated rows writes nothing and ends with exit code 0, and a run
\* with at least one accumulated row writes all of them and ends with exit
\* code 0.  In the VnExpress comment script the write step is followed by
\* the optional update of the article file: the run goes on to it with no
\* exit code set, and ends with exit code 0 when there is no update.
C14_ZeroRowsNoFailure ==
  /\ dc_Crawled => dc_exit = 0 /\ dc_output = dc_all_comments
  /\ tc_Crawled => tc_exit = 0 /\ tc_output = tc_all_comments
  /\ vc_Saved =>
       /\ vc_output = vc_CommentsData(vc_awc)
       /\ vc_pc = "update" => vc_exit = None
       /\ (vc_pc = "done" /\ vc_file = vc_NotRead) => vc_exit = 0
  /\ dn_Crawled => dn_exit = 0 /\ dn_output = dn_unique
  /\ tn_Crawled => tn_exit = 0 /\ tn_output = tn_Rows(tn_all_articles)
  /\ sb_Crawled => sb_exit = 0 /\ sb_output = sb_all_articles
  /\ aa_Crawled => aa_exit = 0 /\ aa_output = aa_all_articles

C14_Witness ==
  /\ dc_Crawled /\ net_last = "sleep"
  /\ dc_all_comments = <<>> /\ dc_output = <<>> /\ dc_exit = 0

\* C15: every run that completes its crawl exits with code 0, also when it
\* found no article or comment at all.
C15_SuccessExitsZero ==
  /\ dc_Crawled => dc_exit = 0
  /\ tc_Crawled => tc_exit = 0
  /\ vc_Crawled => vc_exit = 0
  /\ dn_Crawled => dn_exit = 0
  /\ tn_Crawled => tn_exit = 0
  /\ sb_Crawled => sb_exit = 0
  /\ aa_Crawled => aa_exit = 0

\* the file has none of the columns to remove
cc_Absent(file) == \A i \in 1..Len(file.header) : file.header[i] \notin cc_columns
cc_Ran == script = "clean_old_csv" /\ cc_pc \in {"second", "done"}
cc_RanTwice == script = "clean_old_csv" /\ cc_pc = "done"

\* C16 as stated: clean_csv on a file with columns, none of them among the
\* columns to remove, returns True and writes a file with the same column
\* list; and whenever clean_csv(f) succeeds, clean_csv on its output
\* succeeds too and writes the same columns and rows.
C16_Idempotent ==
  /\ (cc_Ran /\ cc_input.header # <<>> /\ cc_Absent(cc_input)) =>
       cc_ret1 /\ cc_out1.header = cc_input.header
  /\ (cc_RanTwice /\ cc_ret1) =>
       cc_ret2 /\ cc_out2.header = cc_out1.header /\ cc_out2.rows = cc_out1.rows

\* C16 amended: the same, for a file that keeps at least one column; when
\* the columns to remove are all the columns of f, clean_csv(f) writes a
\* file without columns and clean_csv on that file returns False and
\* writes nothing.
C16_IdempotentWithColumns ==
  /\ (cc_Ran /\ cc_input.header # <<>> /\ cc_Absent(cc_input)) =>
       cc_ret1 /\ cc_out1.header = cc_input.header
  /\ (cc_RanTwice /\ cc_ret1 /\ cc_out1.header # <<>>) =>
       cc_ret2 /\ cc_out2.header = cc_out1.header /\ cc_out2.rows = cc_out1.rows
  /\ (cc_RanTwice /\ cc_ret1 /\ cc_out1.header = <<>>) =>
       ~cc_ret2 /\ cc_out2 = cc_NoFile /\ cc_exit = 1

C16_Witness ==
  /\ cc_RanTwice /\ cc_ret1 /\ cc_ret2
  /\ cc_input.header = <<"user_name", "content">> /\ cc_columns = {"user_name"}
  /\ cc_input.rows = <<<<5, EmptyStr, 5>>, <<5>>>>
  /\ cc_out1.header = <<"content">> /\ cc_out1.rows = <<<<EmptyStr>>, <<EmptyStr>>>>
  /\ cc_out2 = cc_out1

\* C17: in every run a sleep is executed between any two consecutive HTTP
\* requests, whatever their kind (search page, article comments, replies)
\* and also across the boundary between two search queries.  (Requests
\* are synchronous calls of a sequential program, so at most one is
\* outstanding at any time.)
C17_SleepBetweenRequests == net_unslept = FALSE


HaveIds(articles) == \A n \in 1..Len(articles) : Truthy(articles[n].article_id)

\* C18: every article record a search or listing parser emits, and every
\* article row written to an output file, has a non-empty article_id: a
\* result node whose URL yields no id is skipped (Dantri, TuoiTre and both
\* VnExpress article parsers).
C18_ArticleIdentity ==
  /\ HaveIds(dn_query_articles) /\ HaveIds(dn_all_articles) /\ HaveIds(dn_output)
  /\ HaveIds(tn_all_articles) /\ HaveIds(tn_output)
  /\ HaveIds(sb_all_articles) /\ HaveIds(sb_output)
  /\ HaveIds(aa_all_articles) /\ HaveIds(aa_output)

\* index of the last record of `articles' that has this id
LastIndexOf(articles, id) ==
  CHOOSE n \in 1..Len(articles) :
    /\ articles[n].article_id = id
    /\ \A m \in (n + 1)..Len(articles) : articles[m].article_id # id

\* C9: the deduplicated result of the Dantri search has exactly one record
\* per distinct article_id of the collected records, and it is the last
\* record collected with that id.
C9_LastWriteWins ==
  dn_pc = "done" =>
    /\ \A i, j \in 1..Len(dn_unique) :
         dn_unique[i].article_id = dn_unique[j].article_id => i = j
    /\ {dn_unique[i].article_id : i \in 1..Len(dn_unique)}
         = {dn_all_articles[n].article_id : n \in 1..Len(dn_all_articles)}
    /\ \A i \in 1..Len(dn_unique) :
         dn_unique[i] = dn_all_articles[LastIndexOf(dn_all_articles, dn_unique[i].article_id)]
    /\ dn_output = dn_unique

C9_Witness ==
  /\ dn_pc = "done"
  /\ Len(dn_unique) = 2
  /\ \E i, j \in 1..Len(dn_all_articles) :
       /\ i < j
       /\ dn_all_articles[i].article_id = dn_all_articles[j].article_id
       /\ dn_all_articles[i].title # dn_all_articles[j].title
       /\ dn_log[1].query # dn_log[Len(dn_log)].query

\* C20 as stated: when the flattening of one article has ended, the reply
\* requests it issued are, in payload order, one for the id of each
\* top-level comment of the payload whose declared reply count is greater
\* than zero, and no other.
C20_ReplyFetches ==
  /\ (script = "dantri_comments" /\ (dc_pc = "done" \/ dc_comments = <<>>))
       => dc_reply_for = dc_declared
  /\ (script = "vnexpress_comments" /\ vc_comments = <<>>)
       => vc_reply_for = vc_declared

\* index of the first record of `articles' that has this id
FirstIndexOf(articles, id) ==
  CHOOSE n \in 1..Len(articles) :
    /\ articles[n].article_id = id
    /\ \A m \in 1..(n - 1) : articles[m].article_id # id

\* C19 as stated: the deduplicated records of the Dantri search come in
\* final-write order: a precedes b exactly when the last record collected
\* with the id of a precedes the last record collected with the id of b.
C19_FinalWriteOrder ==
  (script = "dantri_news" /\ dn_pc = "done") =>
    \A i, j \in 1..Len(dn_unique) :
      i # j =>
        ((i < j) <=> (LastIndexOf(dn_all_articles, dn_unique[i].article_id)
                        < LastIndexOf(dn_all_articles, dn_unique[j].article_id)))

\* C19 amended: the deduplicated records come in first-write order: a
\* precedes b exactly when the first record collected with the id of a
\* precedes the first record collected with the id of b.
C19_FirstWriteOrder ==
  (script = "dantri_news" /\ dn_pc = "done") =>
    \A i, j \in 1..Len(dn_unique) :
      i # j =>
        ((i < j) <=> (FirstIndexOf(dn_all_articles, dn_unique[i].article_id)
                        < FirstIndexOf(dn_all_articles, dn_unique[j].article_id)))

C19_Witness ==
  /\ script = "dantri_news" /\ dn_pc = "done"
  /\ Len(dn_all_articles) = 3
  /\ dn_all_articles[1].article_id = 1
  /\ dn_all_articles[2].article_id = 2
  /\ dn_all_articles[3].article_id = 1
  /\ dn_all_articles[3].title # dn_all_articles[1].title
  /\ dn_unique = <<dn_all_articles[3], dn_all_articles[2]>>
  /\ dn_output = dn_unique

\* the records of a logged TuoiTre page that lie in the date range, and
\* whether the page has a record older than the start date
tn_InRangeOf(entry) == tn_Filtered(entry.articles, tn_start_date, tn_end_date)
tn_HasOlder(entry) ==
  \E n \in 1..Len(entry.articles) :
    entry.articles[n].date # None /\ entry.articles[n].date < tn_start_date
tn_Running == script = "tto_news" /\ tn_pc \in {"loop", "done"} /\ tn_exit # 1

\* C7: the page whose oldest record precedes the start date still
\* contributes its in-range records, the in-range records of the earlier
\* pages stay, and no page is requested after it.
C7_DateStop ==
  /\ (script = "tto_news" /\ tn_pc = "loop") =>
       tn_all_articles = Flatten([n \in 1..Len(tn_log) |-> tn_InRangeOf(tn_log[n])])
  /\ tn_Running =>
       \A n \in 1..Len(tn_log) :
         tn_HasOlder(tn_log[n]) => n = Len(tn_log) /\ tn_reached_start_date

C7_Witness ==
  /\ script = "tto_news" /\ tn_pc = "loop"
  /\ Len(tn_log) = 2
  /\ tn_HasOlder(tn_log[2])
  /\ tn_InRangeOf(tn_log[1]) # <<>>
  /\ tn_InRangeOf(tn_log[2]) # <<>>
  /\ Len(tn_all_articles) = 2

\* number of pages without parsed records at the end of the log
RECURSIVE TrailingEmpty(_)
TrailingEmpty(log) ==
  IF log = <<>> \/ log[Len(log)].articles # <<>> THEN 0
  ELSE 1 + TrailingEmpty(SubSeq(log, 1, Len(log) - 1))

\* C8: empty_pages_count is the number of consecutive pages without parsed
\* records just requested (a page with a record resets it), it stays within
\* 0..M, the loop never goes on after M consecutive empty pages, and a run
\* that the date stop did not end has ended on exactly M of them.
C8_EmptyStop ==
  tn_Running =>
    /\ tn_empty_pages_count = TrailingEmpty(tn_log)
    /\ tn_empty_pages_count \in 0..tn_max_empty_pages
    /\ \A k \in 0..(Len(tn_log) - 1) :
         TrailingEmpty(SubSeq(tn_log, 1, k)) < tn_max_empty_pages
    /\ (tn_pc = "done" /\ ~tn_reached_start_date) =>
         TrailingEmpty(tn_log) = tn_max_empty_pages

C8_Witness ==
  /\ script = "tto_news" /\ tn_pc = "done" /\ ~tn_reached_start_date
  /\ tn_max_empty_pages = 2
  /\ Len(tn_log) = 4
  /\ tn_log[1].articles = <<>>
  /\ tn_log[2].articles # <<>>

\* C21: a step of the flattening in which a reply request fails appends the
\* row of the top-level comment and nothing else, leaves the rows appended
\* before it and the rows of the other articles as they are, and goes on
\* with the next top-level comment of the payload.
C21_FailedReplyFetch ==
  [][/\ Len(dc_reply_failed') > Len(dc_reply_failed) =>
          /\ dc_pc' = "process" /\ dc_exit' = None
          /\ dc_comments' = Tail(dc_comments)
          /\ dc_result' = Append(dc_result, dc_CommentRow(dc_index, Head(dc_comments)))
          /\ dc_all_comments' = dc_all_comments
          /\ dc_index' = dc_index
     /\ Len(vc_reply_failed') > Len(vc_reply_failed) =>
          /\ vc_pc' = "comment" /\ vc_exit' = None
          /\ vc_comments' = Tail(vc_comments)
          /\ vc_all_comments' = Append(vc_all_comments, vc_Stored(Head(vc_comments)))
          /\ vc_awc' = vc_awc
          /\ vc_i' = vc_i]_vars

\* a flattening returns after the reply request of its first comment failed
\* and the one of its second comment brought replies
C21_Witness ==
  /\ dc_Returning
  /\ dc_reply_failed = <<1>>
  /\ dc_reply_for = <<1, 2>>
  /\ dc_fetched > 0
  /\ Len(dc_result) = 2 + dc_fetched
  /\ dc_result[1].comment_id = 1 /\ dc_result[2].comment_id = 2

\* C22: in every state of the page loop of the TuoiTre search and after it,
\* every accumulated record has a parsed date d with start date <= d <= end
\* date; a record without a parsable date or outside the range is never
\* accumulated.
C22_DateRange ==
  (script = "tto_news" /\ tn_pc \in {"loop", "done"}) =>
    \A n \in 1..Len(tn_all_articles) :
      /\ tn_all_articles[n].date # None
      /\ tn_start_date <= tn_all_articles[n].date
      /\ tn_all_articles[n].date <= tn_end_date

\* a page brought a record without a date, a record after the end date and
\* a record in the range; only the last one is accumulated
C22_Witness ==
  /\ script = "tto_news" /\ tn_pc = "loop"
  /\ tn_start_date = 2 /\ tn_end_date = 2
  /\ Len(tn_log) = 1
  /\ tn_log[1].articles = <<[article_id |-> 1, date |-> None],
                            [article_id |-> 31, date |-> 3],
                            [article_id |-> 21, date |-> 2]>>
  /\ tn_all_articles = <<[article_id |-> 21, date |-> 2]>>

\* the position of the comment_count column in a header
vc_CountColumn(header) == CHOOSE k \in 1..Len(header) : header[k] = "comment_count"

\* C23: update_article_csv_with_comment_count keeps every input row in the
\* same order with the value of every original column unchanged, sets
\* comment_count of each row to the number of entries stored for its
\* article_id (0 without an entry), and adds a comment_count column only
\* when the input has none.
C23_UpdateKeepsRows ==
  (script = "vnexpress_comments" /\ vc_pc = "done" /\ vc_file # vc_NotRead) =>
    /\ vc_updated.header = vc_fieldnames(vc_file.header)
    /\ Len(vc_updated.header) =
         Len(vc_file.header)
           + (IF \E k \in 1..Len(vc_file.header) : vc_file.header[k] = "comment_count"
                THEN 0 ELSE 1)
    /\ Len(vc_updated.rows) = Len(vc_file.rows)
    /\ \A i \in 1..Len(vc_file.rows) :
         /\ \A k \in 1..Len(vc_file.header) :
              (k <= Len(vc_file.rows[i]) /\ vc_file.header[k] # "comment_count") =>
                vc_updated.rows[i][k] = vc_file.rows[i][k]
         /\ vc_updated.rows[i][vc_CountColumn(vc_updated.header)]
              = vc_comment_count(vc_awc, vc_file.rows[i][1])

\* the last m entries of the TuoiTre request log are failed requests
tn_LastFailed(m) ==
  /\ Len(tn_log) >= m
  /\ \A k \in (Len(tn_log) - m + 1)..Len(tn_log) : ~tn_log[k].ok

\* C24: a TuoiTre page whose request fails is handled like a page without
\* parsed records: the step adds one to the consecutive-empty counter, moves
\* to the next page index, keeps the accumulated records and leaves the run
\* in its loop; after M consecutive failures the counter is M, so the loop
\* is over, and the run ends with exit code 0 and the accumulated records
\* written.
C24_FailedPageIsEmptyPage ==
  /\ [][(Len(tn_log') > Len(tn_log) /\ tn_log'[Len(tn_log')].articles = <<>>) =>
          /\ tn_empty_pages_count' = tn_empty_pages_count + 1
          /\ tn_page_index' = tn_page_index + 1
          /\ tn_all_articles' = tn_all_articles
          /\ tn_reached_start_date' = FALSE
          /\ tn_pc' = "loop" /\ tn_exit' = None]_vars
  /\ [](\A k \in 1..Len(tn_log) : ~tn_log[k].ok => tn_log[k].articles = <<>>)
  /\ []((tn_Running /\ tn_max_empty_pages >= 1 /\ tn_LastFailed(tn_max_empty_pages)) =>
          /\ tn_empty_pages_count = tn_max_empty_pages
          /\ tn_pc = "done" =>
               /\ tn_exit = 0
               /\ tn_output = tn_Rows(tn_all_articles)
               /\ Len(tn_all_articles)
                    = Len(Flatten([n \in 1..Len(tn_log) |-> tn_InRangeOf(tn_log[n])])))

\* a failed page between two pages with records did not end the run, and
\* two failed pages in a row did
C24_Witness ==
  /\ script = "tto_news" /\ tn_pc = "done" /\ tn_max_empty_pages = 2
  /\ Len(tn_log) = 5
  /\ tn_log[1].articles # <<>>
  /\ ~tn_log[2].ok
  /\ tn_log[3].articles # <<>> /\ tn_log[3].page = 3
  /\ ~tn_log[4].ok /\ ~tn_log[5].ok
  /\ Len(tn_all_articles) = 2 /\ Len(tn_output) = 2

\* C25: the page numbers requested by the Dantri search for one query, and
\* by the TuoiTre search in one run, are 1, 2, 3, ... in this order: no
\* gap, and no page is requested twice, also after a failed or empty page.
\* The Dantri queries are served one after the other.
C25_PageSequence ==
  /\ \A k \in 1..Len(tn_log) : tn_log[k].page = k
  /\ \A q \in 1..NumQueries :
       \A k \in 1..Len(dn_LogOf(q)) : dn_LogOf(q)[k].page = k
  /\ \A j, k \in 1..Len(dn_log) : j < k => dn_log[j].query <= dn_log[k].query

\* the TuoiTre search went on to page 2 after a failed page 1 and to page 4
\* after an empty page 3
C25_Witness ==
  /\ script = "tto_news" /\ tn_pc = "loop"
  /\ Len(tn_log) = 4
  /\ ~tn_log[1].ok
  /\ tn_log[2].articles # <<>>
  /\ tn_log[3].ok /\ tn_log[3].articles = <<>>
  /\ tn_log[4].articles # <<>>
  /\ tn_page_index = 5

\* C26 as stated: the Dantri search ends: when the pages that carry
\* articles are finitely many, every run reaches the end of its last query,
\* the deduplication and the write step.
C26_DantriTerminates == (script = "dantri_news") ~> (dn_pc = "done")

\* C27: the TuoiTre search ends: when the pages that yield records are
\* finitely many, every run leaves its page loop, never more than
\* max_empty_pages requests after the last page with records, and then sorts
\* and writes what it has accumulated.
C27_TuoiTreTerminates ==
  /\ (script = "tto_news") ~>
       (tn_pc = "done" /\ (tn_exit = 0 => tn_output = tn_Rows(tn_all_articles)))
  /\ [](tn_Running => TrailingEmpty(tn_log) <= tn_max_empty_pages)

\* a run ended max_empty_pages requests after its last page with records
C27_Witness ==
  /\ script = "tto_news" /\ tn_pc = "done" /\ tn_exit = 0
  /\ tn_max_empty_pages = 2
  /\ Len(tn_log) = 3
  /\ tn_log[1].articles # <<>>
  /\ TrailingEmpty(tn_log) = 2
  /\ tn_output # <<>>

====
